---------------------------- MODULE Spec2Model ----------------------------
(***************************************************************************)
(* A model of prsk-trend's estimation engine (utils/math: preprocessing,   *)
(* robust slope, prediction, windowed delta) and of the collection         *)
(* script's gap filler (one run of the script = one cycle).                *)
(*                                                                         *)
(* Numbers.  A JavaScript number is modelled as an exact rational          *)
(* [num, den] in lowest terms with den > 0, or as NaN ([0, 0]).  No        *)
(* division of the modelled code can divide by zero (each is guarded), so  *)
(* the infinities are not needed.  Rounding error of IEEE doubles is not   *)
(* modelled: the arithmetic is the real-number arithmetic the code         *)
(* approximates.  TLC stops with an error on 32-bit overflow, so a run     *)
(* that completes has computed every value exactly.                        *)
(*                                                                         *)
(* Time.  An instant is an integer number of milliseconds, as Date's       *)
(* getTime(), counted from a base instant that is midnight UTC.            *)
(***************************************************************************)
EXTENDS Integers, Sequences, FiniteSets, TLC

-----------------------------------------------------------------------------
(* Exact rational arithmetic with NaN *)

RECURSIVE Gcd(_, _)
Gcd(a, b) == IF b = 0 THEN a ELSE Gcd(b, a % b)

AbsInt(a) == IF a < 0 THEN -a ELSE a

NaN == [num |-> 0, den |-> 0]

IsNaN(x) == x.den = 0

\* n/d in lowest terms, d # 0
Rat(n, d) ==
    LET s == IF d < 0 THEN -1 ELSE 1
        g == Gcd(AbsInt(n), AbsInt(d))
    IN  [num |-> (s * n) \div g, den |-> (s * d) \div g]

R(n) == [num |-> n, den |-> 1]

Zero == R(0)
One == R(1)

RNeg(x) == IF IsNaN(x) THEN NaN ELSE [num |-> -x.num, den |-> x.den]

RAdd(x, y) ==
    IF IsNaN(x) \/ IsNaN(y) THEN NaN
    ELSE LET g == Gcd(x.den, y.den)
         IN  Rat(x.num * (y.den \div g) + y.num * (x.den \div g),
                 (x.den \div g) * y.den)

RSub(x, y) == RAdd(x, RNeg(y))

RMul(x, y) ==
    IF IsNaN(x) \/ IsNaN(y) THEN NaN
    ELSE LET g1 == Gcd(AbsInt(x.num), y.den)
             g2 == Gcd(AbsInt(y.num), x.den)
         IN  [num |-> (x.num \div g1) * (y.num \div g2),
              den |-> (x.den \div g2) * (y.den \div g1)]

\* x / y for y # 0 (every division of the modelled code is guarded)
RDiv(x, y) ==
    IF IsNaN(x) \/ IsNaN(y) THEN NaN
    ELSE IF y.num = 0 THEN CHOOSE inf \in {} : TRUE   \* unreachable: TLC would stop
    ELSE RMul(x, Rat(y.den, y.num))

RAbs(x) == IF IsNaN(x) THEN NaN ELSE [num |-> AbsInt(x.num), den |-> x.den]

\* a/b < c/d for a, c >= 0 and b, d > 0, by continued fractions: it never
\* multiplies, so thresholds such as 1e-9 compare without overflow
RECURSIVE FracLt(_, _, _, _)
FracLt(a, b, c, d) ==
    LET qa == a \div b
        qc == c \div d
        ra == a % b
        rc == c % d
    IN  IF qa # qc THEN qa < qc
        ELSE IF rc = 0 THEN FALSE
        ELSE IF ra = 0 THEN TRUE
        ELSE FracLt(d, rc, b, ra)

\* JavaScript's x < y: false when either side is NaN
RLt(x, y) ==
    IF IsNaN(x) \/ IsNaN(y) THEN FALSE
    ELSE IF x.num < 0 /\ y.num >= 0 THEN TRUE
    ELSE IF x.num >= 0 /\ y.num < 0 THEN FALSE
    ELSE IF x.num >= 0 THEN FracLt(x.num, x.den, y.num, y.den)
    ELSE FracLt(-y.num, y.den, -x.num, x.den)

RGt(x, y) == RLt(y, x)
RLe(x, y) == ~IsNaN(x) /\ ~IsNaN(y) /\ ~RLt(y, x)
RGe(x, y) == RLe(y, x)

\* Math.max / Math.min: NaN when any argument is NaN
RMax(x, y) == IF IsNaN(x) \/ IsNaN(y) THEN NaN ELSE IF RLt(x, y) THEN y ELSE x
RMin(x, y) == IF IsNaN(x) \/ IsNaN(y) THEN NaN ELSE IF RLt(y, x) THEN y ELSE x

\* Math.round: the nearest integer, a half rounding up (towards +infinity)
MathRound(x) ==
    IF IsNaN(x) THEN NaN ELSE R((2 * x.num + x.den) \div (2 * x.den))

\* Math.floor
MathFloor(x) == IF IsNaN(x) THEN NaN ELSE R(x.num \div x.den)

\* Math.sign
MathSign(x) ==
    IF IsNaN(x) THEN NaN
    ELSE IF x.num > 0 THEN One ELSE IF x.num < 0 THEN R(-1) ELSE Zero

\* isFinite(x): the model has no infinities
IsFinite(x) == ~IsNaN(x)

\* x || y on numbers: y when x is 0 or NaN
OrElse(x, y) == IF IsNaN(x) \/ x.num = 0 THEN y ELSE x

IsInteger(x) == x.den = 1

-----------------------------------------------------------------------------
(* Strings that hold timestamps, and Date objects *)

DayMs == 86400000
MinuteMs == 60000

\* A field that is undefined (or the empty string): falsy
Absent == [tag |-> "absent", n |-> 0]
\* The canonical ISO-8601 string Date.prototype.toISOString() writes for ms
IsoStr(ms) == [tag |-> "iso", n |-> ms]
\* The legacy calendar date "YYYY-MM-DD" of day d (d days after the base)
YmdStr(d) == [tag |-> "ymd", n |-> d]
\* A non-empty string that is no date at all
Garbage == [tag |-> "garbage", n |-> 0]

Truthy(s) == s.tag # "absent"

\* s + 'T00:00:00.000Z'
AppendMidnight(s) ==
    IF s.tag = "ymd" THEN IsoStr(s.n * DayMs) ELSE Garbage

NullDate == [kind |-> "null", ms |-> 0]
InvalidDate == [kind |-> "invalid", ms |-> 0]
DateOf(ms) == [kind |-> "date", ms |-> ms]

\* new Date(s) for a string s: an unparsable string gives an Invalid Date
\* object (truthy, getTime() = NaN); a date-only string is midnight UTC
NewDate(s) ==
    CASE s.tag = "iso" -> DateOf(s.n)
      [] s.tag = "ymd" -> DateOf(s.n * DayMs)
      [] OTHER -> InvalidDate

\* d.getTime()
GetTime(d) == IF d.kind = "date" THEN R(d.ms) ELSE NaN

\* !d is true of null only: an Invalid Date is an object
IsNull(d) == d.kind = "null"
IsValidDate(d) == d.kind = "date"

\* A history entry {datetime?, date?, views, predicted?}
Entry(dt, day, v, p) == [datetime |-> dt, date |-> day, views |-> v, predicted |-> p]
Real(ms, v) == Entry(IsoStr(ms), Absent, v, FALSE)
Predicted(ms, v) == Entry(IsoStr(ms), Absent, v, TRUE)
Legacy(d, v) == Entry(Absent, YmdStr(d), v, FALSE)

\* h.datetime ? new Date(h.datetime)
\*            : (h.date ? new Date(h.date + 'T00:00:00.000Z') : null)
EntryTime(h) ==
    IF Truthy(h.datetime) THEN NewDate(h.datetime)
    ELSE IF Truthy(h.date) THEN NewDate(AppendMidnight(h.date))
    ELSE NullDate

Last(s) == s[Len(s)]

RECURSIVE RSum(_)
RSum(s) == IF s = <<>> THEN Zero ELSE RAdd(s[1], RSum(Tail(s)))

\* the subsequence of s at the (increasing) positions of idx
Pick(s, idx) == [k \in 1..Len(idx) |-> s[idx[k]]]

\* the indices 1..n as a sequence
Indices(n) == [i \in 1..n |-> i]

-----------------------------------------------------------------------------
(* utils/math: median, mad, emaOfRates *)

\* insert x into the ascending sequence s, after the elements equal to it
RECURSIVE InsertNum(_, _)
InsertNum(s, x) ==
    IF s = <<>> THEN <<x>>
    ELSE IF RLt(x, s[1]) THEN <<x>> \o s
    ELSE <<s[1]>> \o InsertNum(Tail(s), x)

\* arr.slice().sort((a, b) => a - b) for an array without NaN
RECURSIVE SortNums(_)
SortNums(arr) ==
    IF arr = <<>> THEN <<>>
    ELSE InsertNum(SortNums(SubSeq(arr, 1, Len(arr) - 1)), Last(arr))

median(arr) ==
    IF Len(arr) = 0 THEN Zero
    ELSE LET s == SortNums(arr)
             m == Len(s) \div 2          \* 0-based index
         IN  IF Len(s) % 2 = 1 THEN s[m + 1]
             ELSE RDiv(RAdd(s[m], s[m + 1]), R(2))

mad(arr) ==
    IF Len(arr) = 0 THEN Zero
    ELSE LET med == median(arr)
             abs == [i \in 1..Len(arr) |-> RAbs(RSub(arr[i], med))]
         IN  median(abs)

RECURSIVE EmaFrom(_, _, _, _)
EmaFrom(rates, alpha, i, s) ==
    IF i > Len(rates) THEN s
    ELSE EmaFrom(rates, alpha, i + 1,
                 RAdd(RMul(alpha, rates[i]), RMul(RSub(One, alpha), s)))

emaOfRates(rates, alpha) ==
    IF Len(rates) = 0 THEN Zero ELSE EmaFrom(rates, alpha, 2, rates[1])

-----------------------------------------------------------------------------
(* utils/math: preprocessHistory *)

Point(h) ==
    LET t == EntryTime(h)
    IN  [t |-> t, tsMin |-> RDiv(GetTime(t), R(MinuteMs)), v |-> h.views]

\* history.map(...).filter(x => !!x): the entries whose time is not null
RawPoints(history) ==
    LET kept == SelectSeq(history, LAMBDA h : ~IsNull(EntryTime(h)))
    IN  [i \in 1..Len(kept) |-> Point(kept[i])]

\* insert p into s by (a, b) => a.t.getTime() - b.t.getTime(), after the
\* points it is not smaller than
RECURSIVE InsertPoint(_, _)
InsertPoint(s, p) ==
    IF s = <<>> THEN <<p>>
    ELSE IF RLt(GetTime(p.t), GetTime(s[1].t)) THEN <<p>> \o s
    ELSE <<s[1]>> \o InsertPoint(Tail(s), p)

\* pts.sort(...): stable and ascending when every time is valid
RECURSIVE SortPoints(_)
SortPoints(pts) ==
    IF pts = <<>> THEN <<>>
    ELSE InsertPoint(SortPoints(SubSeq(pts, 1, Len(pts) - 1)), Last(pts))

AllValid(pts) == \A i \in 1..Len(pts) : IsValidDate(pts[i].t)

\* What pts.sort(...) may leave behind.  With an Invalid Date among the points
\* the comparator returns NaN and is inconsistent, and the order the sort
\* leaves is implementation-defined: any permutation.
SortOutcomes(pts) ==
    IF AllValid(pts) THEN {SortPoints(pts)}
    ELSE LET n == Len(pts)
             perms == {f \in [1..n -> 1..n] : \A i, j \in 1..n : f[i] = f[j] => i = j}
         IN  {[i \in 1..n |-> pts[f[i]]] : f \in perms}

DupEps == Rat(1, 1000000)

\* the loop of lines 43-49: a point within 1e-6 minutes of the last kept one
\* replaces it
RECURSIVE DedupeFrom(_, _, _)
DedupeFrom(pts, i, unique) ==
    IF i > Len(pts) THEN unique
    ELSE LET p == pts[i]
         IN  IF unique # <<>>
                /\ RLt(RAbs(RSub(Last(unique).tsMin, p.tsMin)), DupEps)
             THEN DedupeFrom(pts, i + 1, [unique EXCEPT ![Len(unique)] = p])
             ELSE DedupeFrom(pts, i + 1, Append(unique, p))

Dedupe(pts) == DedupeFrom(pts, 1, <<>>)

\* preprocessHistory with the sort of an insertion sort: the only outcome when
\* every time is valid, one of the possible outcomes otherwise
preprocessHistory(history) == Dedupe(SortPoints(RawPoints(history)))

\* every result preprocessHistory can return
PreprocessOutcomes(history) == {Dedupe(s) : s \in SortOutcomes(RawPoints(history))}

-----------------------------------------------------------------------------
(* utils/math: computeAdvancedSlope *)

OUTLIER_K == 6
HALF_LIFE_MIN == 180
MadFloor == Rat(1, 1000000)
MinDt == Rat(1, 10000)
Singular == Rat(1, 1000000000)
alpha == Rat(1, 2)
maxMultiplier == 10

RECURSIVE Pow2(_)
Pow2(k) == IF k = 0 THEN 1 ELSE 2 * Pow2(k - 1)

\* Math.exp(-(Math.abs(x) / HALF_LIFE_MIN) * ln2) = 2^(-|x|/180).  The value is
\* irrational in general; the model takes it exactly at the whole half-lives
\* and linearly in between (2^(-k-f) ~ (1 - f/2) / 2^k for 0 <= f < 1): positive,
\* 1 at 0, decreasing in |x|, within 7% of the exponential.
Weight(x) ==
    IF IsNaN(x) THEN NaN
    ELSE LET h == RDiv(RAbs(x), R(HALF_LIFE_MIN))
             k == h.num \div h.den
             f == RSub(h, R(k))
         IN  RDiv(RSub(One, RDiv(f, R(2))), R(Pow2(k)))

\* the result for too few points with a slope of one view per minute
ZeroSlope_unitRate(n) ==
    [slope_reg |-> Zero, slope_ema |-> Zero, slope_final |-> One, r2 |-> Zero,
     nPoints |-> n, medRate |-> Zero]

\* lines 56 and 65: the result when fewer than 2 points or no segment is left
ZeroSlope(n) ==
    [slope_reg |-> Zero, slope_ema |-> Zero, slope_final |-> Zero, r2 |-> Zero,
     nPoints |-> n, medRate |-> Zero]

\* the rates of the adjacent pairs with dt > 0 (lines 58-64 and 137-143)
SegRates(pts) ==
    LET dv(i) == R(pts[i + 1].v - pts[i].v)
        dt(i) == RSub(pts[i + 1].tsMin, pts[i].tsMin)
        idx == SelectSeq(Indices(Len(pts) - 1), LAMBDA i : ~RLe(dt(i), Zero))
    IN  [k \in 1..Len(idx) |-> RDiv(dv(idx[k]), dt(idx[k]))]

\* the rate of the segment from point i to point i + 1 as the outlier test
\* computes it (lines 75 and 79)
TestRate(pts, i) ==
    RDiv(R(pts[i + 1].v - pts[i].v),
         RMax(MinDt, RSub(pts[i + 1].tsMin, pts[i].tsMin)))

\* goodIdx testing only the segment that follows each point
GoodIdx_nextOnly(pts, medRate, madRate) ==
    LET n == Len(pts)
        far(i) == RGt(RAbs(RSub(TestRate(pts, i), medRate)), RMul(R(OUTLIER_K), madRate))
        ok(i) == i < n => ~far(i)
    IN  SelectSeq(Indices(n), ok)

\* goodIdx (lines 71-83), 1-based
GoodIdx(pts, medRate, madRate) ==
    LET n == Len(pts)
        far(i) == RGt(RAbs(RSub(TestRate(pts, i), medRate)), RMul(R(OUTLIER_K), madRate))
        ok(i) == /\ (i < n => ~far(i))
                 /\ (i > 1 => ~far(i - 1))
    IN  SelectSeq(Indices(n), ok)

\* goodPts (lines 85-86)
GoodPts(pts, medRate, madRate) ==
    LET g == Pick(pts, GoodIdx(pts, medRate, madRate))
    IN  IF Len(g) < 2 THEN pts ELSE g

\* xs, ys and ws of the good points g (lines 88-95)
RegX(g, i) == RSub(g[i].tsMin, Last(g).tsMin)
RegY(g, i) == R(g[i].v)
RegW(g, i) == Weight(RegX(g, i))

\* the sums S, Sx, Sy, Sxx, Sxy of lines 97-107
WeightedSums(g) ==
    [S   |-> RSum([i \in 1..Len(g) |-> RegW(g, i)]),
     Sx  |-> RSum([i \in 1..Len(g) |-> RMul(RegW(g, i), RegX(g, i))]),
     Sy  |-> RSum([i \in 1..Len(g) |-> RMul(RegW(g, i), RegY(g, i))]),
     Sxx |-> RSum([i \in 1..Len(g) |-> RMul(RMul(RegW(g, i), RegX(g, i)), RegX(g, i))]),
     Sxy |-> RSum([i \in 1..Len(g) |-> RMul(RMul(RegW(g, i), RegX(g, i)), RegY(g, i))])]

\* denom and its test (lines 109 and 112)
Denom(s) == RSub(RMul(s.S, s.Sxx), RMul(s.Sx, s.Sx))
Regular(s) == RGt(RAbs(Denom(s)), Singular)

\* slope_reg (lines 113 and 116-118)
SlopeReg(g, s) ==
    IF Regular(s)
    THEN RDiv(RSub(RMul(s.S, s.Sxy), RMul(s.Sx, s.Sy)), Denom(s))
    ELSE RDiv(RSub(RegY(g, Len(g)), RegY(g, 1)),
              OrElse(RSub(g[Len(g)].tsMin, g[1].tsMin), One))

\* intercept (lines 114 and 119)
Intercept(g, s, slope_reg) ==
    IF Regular(s)
    THEN RDiv(RSub(s.Sy, RMul(slope_reg, s.Sx)), s.S)
    ELSE RSub(RegY(g, Len(g)), RMul(slope_reg, RegX(g, Len(g))))

\* Math.pow(z, 2)
Sq(z) == RMul(z, z)

\* SSres and SStot (lines 122-132)
SSres(g, slope_reg, intercept) ==
    RSum([i \in 1..Len(g) |->
            RMul(RegW(g, i),
                 Sq(RSub(RegY(g, i), RAdd(intercept, RMul(slope_reg, RegX(g, i))))))])

SStot(g, yWeightedMean) ==
    RSum([i \in 1..Len(g) |-> RMul(RegW(g, i), Sq(RSub(RegY(g, i), yWeightedMean)))])

\* r2 from the two sums (lines 133-135)
RSquared(ssres, sstot) ==
    IF RGt(sstot, Singular)
    THEN OrElse(RMax(Zero, RSub(One, RDiv(ssres, sstot))), Zero)
    ELSE Zero

\* conf (lines 147-150)
Conf(r2, m) ==
    RMin(One, RMax(Zero, RMul(r2, Rat(IF m < 6 THEN m ELSE 6, 6))))

\* the blend left as it is, negative or not
Floored_asBlended(x, slope_reg, slope_ema) == x

\* the floor of line 153 applied to the blend
Floored(blend, slope_reg, slope_ema) ==
    IF ~IsFinite(blend) \/ RLt(blend, Zero)
    THEN RMax(RMax(Zero, slope_ema), RMax(slope_reg, Zero))
    ELSE blend

\* the cap of lines 155-157 with a cap of 1 whatever the median rate
Capped_atOne(x, medRate) ==
    IF RGt(RAbs(x), One) THEN RMul(MathSign(x), One) ELSE x

\* the cap of lines 155-157
Capped(x, medRate) ==
    IF RGt(RAbs(x), RMax(RMul(RAbs(medRate), R(maxMultiplier)), One))
    THEN RMul(MathSign(x), RMax(RMul(RAbs(medRate), R(maxMultiplier)), One))
    ELSE x

\* lines 152-157: the blend of the two slopes, floored and capped
SlopeFinal(conf, slope_reg, slope_ema, medRate) ==
    Capped(Floored(RAdd(RMul(conf, slope_reg), RMul(RSub(One, conf), slope_ema)),
                   slope_reg, slope_ema),
           medRate)

\* lines 122-159 for the good points g, their sums s and the fitted line
SlopeResult(n, g, s, slope_reg, intercept, slope_ema, medRate) ==
    [slope_reg |-> slope_reg, slope_ema |-> slope_ema,
     slope_final |-> SlopeFinal(Conf(RSquared(SSres(g, slope_reg, intercept),
                                              SStot(g, RDiv(s.Sy, s.S))),
                                     Len(g)),
                                slope_reg, slope_ema, medRate),
     r2 |-> RSquared(SSres(g, slope_reg, intercept), SStot(g, RDiv(s.Sy, s.S))),
     nPoints |-> n, medRate |-> medRate]

\* lines 88-159 for the good points g
SlopeOfGood(n, g, s, segRates, medRate) ==
    SlopeResult(n, g, s, SlopeReg(g, s), Intercept(g, s, SlopeReg(g, s)),
                emaOfRates(segRates, alpha), medRate)

\* lines 67-159 for the points pts and their segment rates
SlopeOfRates(pts, segRates, medRate, madRate) ==
    SlopeOfGood(Len(pts), GoodPts(pts, medRate, madRate),
                WeightedSums(GoodPts(pts, medRate, madRate)), segRates, medRate)

\* computeAdvancedSlope's body for the preprocessed points pts
SlopeOfPoints(pts) ==
    IF Len(pts) < 2 THEN ZeroSlope(Len(pts))
    ELSE IF Len(SegRates(pts)) = 0 THEN ZeroSlope(Len(pts))
    ELSE SlopeOfRates(pts, SegRates(pts), median(SegRates(pts)),
                      OrElse(mad(SegRates(pts)), MadFloor))

computeAdvancedSlope(history) == SlopeOfPoints(preprocessHistory(history))

-----------------------------------------------------------------------------
(* utils/math: predictValueAt, floorToHalfHour, calcDeltaWithPrediction *)

\* last.views || 0
ViewsOf(h) == h.views

\* line 174: if (!isFinite(pred)) pred = lastViews
FiniteOr(pred, lastViews) == IF ~IsFinite(pred) THEN lastViews ELSE pred

\* line 175: if (pred < 0) pred = 0
NonNegative(pred) == IF RLt(pred, Zero) THEN Zero ELSE pred

\* lines 173-176
Extrapolate(lastViews, slope, deltaMin) ==
    MathRound(NonNegative(FiniteOr(RAdd(lastViews, RMul(slope, deltaMin)), lastViews)))

\* line 171
DeltaMin(targetDate, lastTime) ==
    RDiv(RSub(GetTime(targetDate), GetTime(lastTime)), R(MinuteMs))

\* predictValueAt without the final Math.round
predictValueAt_unrounded(history, targetDate) ==
    IF Len(history) = 0 THEN Zero
    ELSE IF IsNull(EntryTime(Last(history))) THEN R(ViewsOf(Last(history)))
    ELSE NonNegative(FiniteOr(
             RAdd(R(ViewsOf(Last(history))),
                  RMul(OrElse(computeAdvancedSlope(history).slope_final, Zero),
                       DeltaMin(targetDate, EntryTime(Last(history))))),
             R(ViewsOf(Last(history)))))

\* predictValueAt returning 0 when the last entry has no timestamp
predictValueAt_zeroWithoutTime(history, targetDate) ==
    IF Len(history) = 0 THEN Zero
    ELSE IF IsNull(EntryTime(Last(history))) THEN Zero
    ELSE Extrapolate(R(ViewsOf(Last(history))),
                     OrElse(computeAdvancedSlope(history).slope_final, Zero),
                     DeltaMin(targetDate, EntryTime(Last(history))))

\* predictValueAt anchored at the first entry's time instead of the last's
predictValueAt_anchorFirst(history, targetDate) ==
    IF Len(history) = 0 THEN Zero
    ELSE IF IsNull(EntryTime(history[1])) THEN R(ViewsOf(Last(history)))
    ELSE Extrapolate(R(ViewsOf(Last(history))),
                     OrElse(computeAdvancedSlope(history).slope_final, Zero),
                     DeltaMin(targetDate, EntryTime(history[1])))

predictValueAt(history, targetDate) ==
    IF Len(history) = 0 THEN Zero
    ELSE IF IsNull(EntryTime(Last(history))) THEN R(ViewsOf(Last(history)))
    ELSE Extrapolate(R(ViewsOf(Last(history))),
                     OrElse(computeAdvancedSlope(history).slope_final, Zero),
                     DeltaMin(targetDate, EntryTime(Last(history))))

HalfHourMs == 1800000

\* floorToHalfHour: setSeconds(0, 0), getMinutes() and setMinutes() work on
\* local time, tz being the zone's offset from UTC in milliseconds
floorToHalfHour(date, tz) ==
    IF ~IsValidDate(date) THEN InvalidDate
    ELSE LET local == date.ms + tz
             d == local - (local % MinuteMs)            \* setSeconds(0, 0)
             m == (d \div MinuteMs) % 60                \* getMinutes()
             f == IF m = 0 \/ m = 30 THEN d
                  ELSE IF m < 30 THEN d - m * MinuteMs  \* setMinutes(0)
                  ELSE d - (m - 30) * MinuteMs          \* setMinutes(30)
         IN  DateOf(f - tz)

earliestHistoryTime(history) ==
    IF Len(history) = 0 THEN NullDate ELSE EntryTime(history[1])

\* new Date(x) for a number x: an Invalid Date for NaN, else the instant with
\* the fraction of a millisecond dropped
DateFromNumber(x) ==
    IF IsNaN(x) THEN InvalidDate
    ELSE DateOf(IF x.num >= 0 THEN x.num \div x.den ELSE -((-x.num) \div x.den))

\* baseTick of calcDeltaWithPrediction (lines 204-215), with new Date() = now
\* and the zone tz as inputs
BaseTick(history, days, now, tz) ==
    LET target == DateFromNumber(RSub(GetTime(now), RMul(days, R(DayMs))))
        targetTick == floorToHalfHour(target, tz)
        firstTime == earliestHistoryTime(history)
        firstTick == floorToHalfHour(firstTime, tz)
    IN  IF IsNull(firstTime) THEN targetTick
        ELSE IF RLt(GetTime(targetTick), GetTime(firstTick))
        THEN firstTick ELSE targetTick

\* calcDeltaWithPrediction returning the raw difference, without Math.max(0, .)
calcDeltaWithPrediction_unclamped(history, days, now, tz) ==
    IF Len(history) = 0 THEN Zero
    ELSE LET nowPred == predictValueAt(history, now)
             basePred == predictValueAt(history, BaseTick(history, days, now, tz))
         IN  RSub(nowPred, basePred)

calcDeltaWithPrediction(history, days, now, tz) ==
    IF Len(history) = 0 THEN Zero
    ELSE LET nowPred == predictValueAt(history, now)
             basePred == predictValueAt(history, BaseTick(history, days, now, tz))
         IN  RMax(Zero, RSub(nowPred, basePred))

-----------------------------------------------------------------------------
(* The collection script with gap filling: helpers *)

\* nowISO(date) = new Date(date).toISOString(), for a valid date
nowISO(date) == IsoStr(date.ms)

\* t.toISOString()
ToISOString(t) == IsoStr(t.ms)

parseHistoryEntryDatetime(e) ==
    IF Truthy(e.datetime) THEN NewDate(e.datetime)
    ELSE IF Truthy(e.date) THEN NewDate(AppendMidnight(e.date))
    ELSE NullDate

\* the entry's timestamp string, or null (Absent)
isoFromEntry(e) ==
    IF Truthy(e.datetime) THEN e.datetime
    ELSE IF Truthy(e.date) THEN AppendMidnight(e.date)
    ELSE Absent

MaxHistory == 5000

\* trimHistory keeping the oldest max entries instead of the newest
trimHistory_keepOldest(history, max) ==
    IF Len(history) <= max THEN history
    ELSE SubSeq(history, 1, max)

trimHistory(history, max) ==
    IF Len(history) <= max THEN history
    ELSE SubSeq(history, Len(history) - max + 1, Len(history))

\* the loop of generateIntermediateTimes with t <= toDate as its condition
RECURSIVE IntermediatesFrom_inclusive(_, _, _)
IntermediatesFrom_inclusive(t, toMs, stepMs) ==
    IF t <= toMs
    THEN <<DateOf(t)>> \o IntermediatesFrom_inclusive(t + stepMs, toMs, stepMs)
    ELSE <<>>

\* the loop of generateIntermediateTimes: while (t < toDate) { push; t += step }
RECURSIVE IntermediatesFrom(_, _, _)
IntermediatesFrom(t, toMs, stepMs) ==
    IF t < toMs
    THEN <<DateOf(t)>> \o IntermediatesFrom(t + stepMs, toMs, stepMs)
    ELSE <<>>

\* generateIntermediateTimes: with an Invalid Date on either side the loop
\* condition is false at once
generateIntermediateTimes(fromDate, toDate, intervalMinutes) ==
    IF ~IsValidDate(fromDate) \/ ~IsValidDate(toDate) THEN <<>>
    ELSE IntermediatesFrom(fromDate.ms + intervalMinutes * 60 * 1000, toDate.ms,
                           intervalMinutes * 60 * 1000)

\* (atTime - aTime) / totalMs
Frac(aTime, bTime, atTime) ==
    RDiv(RSub(GetTime(atTime), GetTime(aTime)), RSub(GetTime(bTime), GetTime(aTime)))

\* interpolateViews with the fraction counted back from bTime
interpolateViews_fromEnd(aTime, aViews, bTime, bViews, atTime) ==
    IF RSub(GetTime(bTime), GetTime(aTime)) = Zero THEN R(bViews)
    ELSE MathRound(RAdd(R(aViews), RMul(R(bViews - aViews), Frac(bTime, aTime, atTime))))

interpolateViews(aTime, aViews, bTime, bViews, atTime) ==
    IF RSub(GetTime(bTime), GetTime(aTime)) = Zero THEN R(bViews)
    ELSE MathRound(RAdd(R(aViews), RMul(R(bViews - aViews), Frac(aTime, bTime, atTime))))

\* s.slice(-n)
LastN(s, n) == IF Len(s) <= n THEN s ELSE SubSeq(s, Len(s) - n + 1, Len(s))

\* history.filter(h => !h.predicted)
Actual(history) == SelectSeq(history, LAMBDA h : ~h.predicted)

\* the pair (arr[i], arr[i+1]) is skipped when either time is null
PairCounts(arr, i) ==
    /\ ~IsNull(parseHistoryEntryDatetime(arr[i]))
    /\ ~IsNull(parseHistoryEntryDatetime(arr[i + 1]))

\* deltaV and deltaM of estimateRatePerMinute over the consecutive pairs of arr
DeltaV(arr) ==
    RSum([i \in 1..(Len(arr) - 1) |->
            IF PairCounts(arr, i) THEN R(arr[i + 1].views - arr[i].views) ELSE Zero])

DeltaM(arr) ==
    RSum([i \in 1..(Len(arr) - 1) |->
            IF PairCounts(arr, i)
            THEN RDiv(RSub(GetTime(parseHistoryEntryDatetime(arr[i + 1])),
                           GetTime(parseHistoryEntryDatetime(arr[i]))), R(MinuteMs))
            ELSE Zero])

\* if (deltaM <= 0) return 0; return deltaV / deltaM
RateOf(arr) ==
    IF RLe(DeltaM(arr), Zero) THEN Zero ELSE RDiv(DeltaV(arr), DeltaM(arr))

\* estimateRatePerMinute without the preference for non-predicted entries
estimateRatePerMinute_anyKind(history, lookback) ==
    IF Len(history) < 2 THEN Zero
    ELSE RateOf(LastN(history, lookback))

estimateRatePerMinute(history, lookback) ==
    IF Len(history) < 2 THEN Zero
    ELSE IF Len(LastN(Actual(history), lookback)) < 2
    THEN IF Len(LastN(history, lookback)) < 2 THEN Zero
         ELSE RateOf(LastN(history, lookback))
    ELSE RateOf(LastN(Actual(history), lookback))

\* a number as data/videos.json holds it: JSON.stringify writes NaN as null,
\* which every later use reads as 0
Stored(x) == IF IsNaN(x) THEN 0 ELSE x.num

-----------------------------------------------------------------------------
(* The collection script with gap filling: the two paths of a cycle *)

\* (t.getTime() - lastTime.getTime()) / 60000
MinsFrom(lastTime, t) == RDiv(RSub(GetTime(t), GetTime(lastTime)), R(MinuteMs))

\* Math.max(0, Math.round(lastViews + ratePerMin * minsFromLast))
EstViews(lastTime, lastViews, ratePerMin, t) ==
    RMax(Zero, MathRound(RAdd(R(lastViews), RMul(ratePerMin, MinsFrom(lastTime, t)))))

\* the entries the failure path pushes: one per intermediate time, then the
\* point at currentIso
FailurePredictions(times, lastTime, lastViews, ratePerMin, currentIso) ==
    [i \in 1..Len(times) |->
        Entry(ToISOString(times[i]), Absent,
              Stored(EstViews(lastTime, lastViews, ratePerMin, times[i])), TRUE)]
    \o <<Entry(currentIso, Absent,
               Stored(EstViews(lastTime, lastViews, ratePerMin, NewDate(currentIso))),
               TRUE)>>

\* the failure path for one video, up to the call of trimHistory
FailureHistory(history, currentIso) ==
    IF Len(history) = 0 THEN history
    ELSE IF IsNull(parseHistoryEntryDatetime(Last(history))) THEN history
    ELSE history \o
         FailurePredictions(
             generateIntermediateTimes(parseHistoryEntryDatetime(Last(history)),
                                       NewDate(currentIso), 30),
             parseHistoryEntryDatetime(Last(history)), ViewsOf(Last(history)),
             estimateRatePerMinute(history, 6), currentIso)

\* what the API returned for the video: no item, an item without
\* statistics.viewCount, an item with a count
NoItem == [kind |-> "none", n |-> 0]
ItemNoCount == [kind |-> "nocount", n |-> 0]
ItemCount(n) == [kind |-> "count", n |-> n]

\* the views of line 277 with 0 when the response has no item for the video
FetchedViews_zeroWithoutItem(item, history) ==
    IF item.kind = "none" THEN 0
    ELSE IF item.kind = "nocount" THEN 0
    ELSE item.n

\* views of the success path
FetchedViews(item, history) ==
    IF item.kind = "none"
    THEN IF Len(history) = 0 THEN 0 ELSE ViewsOf(Last(history))
    ELSE IF item.kind = "nocount" THEN 0
    ELSE item.n

\* the predicted entries pushed for the intermediate times
Interpolated(times, lastTime, lastViews, currentTime, views) ==
    [i \in 1..Len(times) |->
        Entry(ToISOString(times[i]), Absent,
              Stored(interpolateViews(lastTime, lastViews, currentTime, views, times[i])),
              TRUE)]

\* GapEntries with a threshold of 60 minutes instead of 45
GapEntries_threshold60(lastEntry, lastTime, currentTime, views) ==
    IF RGt(MinsFrom(lastTime, currentTime), R(60))
    THEN Interpolated(generateIntermediateTimes(lastTime, currentTime, 30),
                      lastTime, ViewsOf(lastEntry), currentTime, views)
    ELSE <<>>

\* GapEntries with a threshold of 30 minutes instead of 45
GapEntries_threshold30(lastEntry, lastTime, currentTime, views) ==
    IF RGt(MinsFrom(lastTime, currentTime), R(30))
    THEN Interpolated(generateIntermediateTimes(lastTime, currentTime, 30),
                      lastTime, ViewsOf(lastEntry), currentTime, views)
    ELSE <<>>

\* the entries pushed when lastIso is set: lastTime = new Date(lastIso)
GapEntries(lastEntry, lastTime, currentTime, views) ==
    IF RGt(MinsFrom(lastTime, currentTime), R(45))
    THEN Interpolated(generateIntermediateTimes(lastTime, currentTime, 30),
                      lastTime, ViewsOf(lastEntry), currentTime, views)
    ELSE <<>>

\* the final step of the success path overwriting the last entry whatever its
\* timestamp
AppendOrUpdate_alwaysUpdate(history, lastIso, currentIso, views) ==
    IF ~Truthy(lastIso) THEN Append(history, Entry(currentIso, Absent, views, FALSE))
    ELSE [history EXCEPT ![Len(history)] = Entry(currentIso, Absent, views, FALSE)]

\* the final step of the success path always pushing the new entry
AppendOrUpdate_alwaysPush(history, lastIso, currentIso, views) ==
    Append(history, Entry(currentIso, Absent, views, FALSE))

\* append or update the entry of the current time
AppendOrUpdate(history, lastIso, currentIso, views) ==
    IF ~Truthy(lastIso) THEN Append(history, Entry(currentIso, Absent, views, FALSE))
    ELSE IF lastIso = currentIso
    THEN [history EXCEPT ![Len(history)] = Entry(currentIso, Absent, views, FALSE)]
    ELSE Append(history, Entry(currentIso, Absent, views, FALSE))

\* the success path for one video, up to the call of trimHistory
SuccessHistory(history, currentIso, views) ==
    IF Len(history) = 0 THEN AppendOrUpdate(history, Absent, currentIso, views)
    ELSE IF ~Truthy(isoFromEntry(Last(history)))
    THEN AppendOrUpdate(history, Absent, currentIso, views)
    ELSE AppendOrUpdate(
             history \o GapEntries(Last(history), NewDate(isoFromEntry(Last(history))),
                                   NewDate(currentIso), views),
             isoFromEntry(Last(history)), currentIso, views)

-----------------------------------------------------------------------------
(* State *)

VARIABLES
    pc,          \* what the last step did
    history,     \* the history under analysis / the stored history of the video
    pts,         \* preprocessHistory's result
    again,       \* preprocessHistory's result on its own output
    target,      \* predictValueAt's targetDate
    pred,        \* predictValueAt's result
    now,         \* the browser's new Date() / the cycle's currentDate
    days,        \* calcDeltaWithPrediction's days
    tz,          \* the browser's time zone: its offset, ms, or a zone with a transition
    delta,       \* calcDeltaWithPrediction's result
    prev,        \* the stored history the last cycle started from
    views,       \* the views the last success cycle fetched
    untrimmed,   \* the history had no cycle ever dropped an entry
    dropped,     \* how many entries the cycles before the last one dropped
    cycles,      \* cycles run so far
    slope,       \* computeAdvancedSlope's result
    base,        \* computeAdvancedSlope's result before the outlier was injected
    at,          \* the segment the outlier was injected into
    videos,      \* data/videos.json: the stored history of every video
    existingMap, \* the stored histories the running cycle loaded
    entries,     \* the videos of the list, in the order the cycle processes them
    chunkStart,  \* the batch loop's i
    results,     \* the cycle's results so far
    fetched,     \* what the cycle's fetches gave, per video
    rate,        \* estimateRatePerMinute's result
    good,        \* computeAdvancedSlope's goodIdx and goodPts
    forecast,    \* forecastHistoryAppend's result
    floored,     \* floorToHalfHour's result
    refloored,   \* floorToHalfHour's result on its own output
    rawData,     \* the App's rawData state
    pending,     \* the App's loads whose fetch has not settled
    latest,      \* the data of the load that succeeded last
    loads        \* the number of loads the App started

vars == <<pc, history, pts, again, target, pred, now, days, tz, delta,
          prev, views, untrimmed, dropped, cycles, slope, base, at,
          videos, existingMap, entries, chunkStart, results, fetched, rate,
          good, forecast, floored, refloored, rawData, pending, latest, loads>>

appVars == <<rawData, pending, latest, loads>>

lateVars == <<good, forecast, floored, refloored, appVars>>

batchVars == <<videos, existingMap, entries, chunkStart, results, fetched>>

Idle == "idle"

LateIdle ==
    /\ good = Idle /\ forecast = Idle /\ floored = Idle /\ refloored = Idle
    /\ rawData = Idle /\ pending = Idle /\ latest = Idle /\ loads = Idle

BatchIdle ==
    /\ videos = Idle /\ existingMap = Idle /\ entries = Idle
    /\ chunkStart = Idle /\ results = Idle /\ fetched = Idle

\* all sequences over S of length at most n
SeqsUpTo(S, n) == UNION {[1..k -> S] : k \in 0..n}

-----------------------------------------------------------------------------
(* The estimation engine applied to bounded raw histories *)

MaxLen == 3
NumTargets == 4

TickMs == 180 * MinuteMs
Ticks == {0, TickMs, 2 * TickMs}
ViewSet == {1000, 1100}

\* the raw entries of the engine's inputs: a full instant, an unparsable
\* string, no timestamp at all
EngineEntries ==
    {Real(t, v) : t \in Ticks, v \in ViewSet}
    \cup {Entry(Garbage, Absent, 1100, FALSE), Entry(Absent, Absent, 1100, FALSE)}

\* the target times: on and after the entries' instants, long before them, and
\* an invalid date
Targets ==
    {DateOf(k * TickMs) : k \in 0..NumTargets}
    \cup {DateOf(-30 * TickMs), InvalidDate}

\* the browser's clock: before the later entries (a clock that is behind) and
\* after all of them, neither on a half-hour tick
Nows == {DateOf(17 * MinuteMs), DateOf(NumTargets * TickMs + 17 * MinuteMs)}
DaySet == {R(0), R(7), R(-1), NaN}
\* UTC and UTC+05:45
TzSet == {0, 345 * MinuteMs}

InitEngine ==
    /\ pc = "input"
    /\ history \in SeqsUpTo(EngineEntries, MaxLen)
    /\ pts = Idle /\ again = Idle
    /\ target = Idle /\ pred = Idle
    /\ now = Idle /\ days = Idle /\ tz = Idle /\ delta = Idle
    /\ prev = Idle /\ views = Idle /\ untrimmed = Idle /\ dropped = Idle /\ cycles = Idle
    /\ slope = Idle /\ base = Idle /\ at = Idle
    /\ BatchIdle /\ rate = Idle
    /\ LateIdle

\* App calls predictValueAt(v.history, t)
Predict ==
    /\ pc = "input"
    /\ \E t \in Targets :
          /\ target' = t
          /\ pred' = predictValueAt(history, t)
    /\ pc' = "predicted"
    /\ UNCHANGED <<history, pts, again, now, days, tz, delta,
                   prev, views, untrimmed, dropped, cycles, slope, base, at, batchVars, rate, lateVars>>

\* App calls calcDeltaWithPrediction(v.history, d)
Delta ==
    /\ pc = "input"
    /\ \E n \in Nows, d \in DaySet, z \in TzSet :
          /\ now' = n /\ days' = d /\ tz' = z
          /\ delta' = calcDeltaWithPrediction(history, d, n, z)
    /\ pc' = "delta"
    /\ UNCHANGED <<history, pts, again, target, pred,
                   prev, views, untrimmed, dropped, cycles, slope, base, at, batchVars, rate, lateVars>>

\* computeAdvancedSlope(history)
Slope ==
    /\ pc = "input"
    /\ slope' = computeAdvancedSlope(history)
    /\ pc' = "slope"
    /\ UNCHANGED <<history, pts, again, target, pred, now, days, tz, delta,
                   prev, views, untrimmed, dropped, cycles, base, at, batchVars, rate, lateVars>>

NextEngine == Predict \/ Slope

SpecEngine == InitEngine /\ [][NextEngine]_vars

\* the delta calculator over the same histories
NextDelta == Delta

SpecDelta == InitEngine /\ [][NextDelta]_vars

-----------------------------------------------------------------------------
(* Claims about the predictor and the delta calculator *)

HasLast == history # <<>> /\ IsValidDate(EntryTime(Last(history)))

\* C1: predicting at the time of the last entry returns exactly the last
\* entry's views, whatever the earlier entries are.
C1_AnchorReproducesLast ==
    (pc = "predicted" /\ HasLast /\ target = EntryTime(Last(history)))
        => pred = R(Last(history).views)

\* a three-entry history with a view reversal and a positive slope, predicted at
\* the time of its last entry
C1_Witness ==
    /\ pc = "predicted" /\ HasLast /\ target = EntryTime(Last(history))
    /\ Len(history) = 3
    /\ history[2].views < history[1].views
    /\ RGt(computeAdvancedSlope(history).slope_final, Zero)
    /\ pred = R(Last(history).views)

\* C2: calcDeltaWithPrediction is a number >= 0 for every history and every
\* number of days.
C2_DeltaNonNegative ==
    pc = "delta" => RGe(delta, Zero)

\* the prediction at the base tick exceeds the prediction at now, and the
\* delta is reported as 0
C2_Witness ==
    /\ pc = "delta"
    /\ RLt(predictValueAt(history, now),
           predictValueAt(history, BaseTick(history, days, now, tz)))
    /\ delta = Zero


-----------------------------------------------------------------------------
(* Collection cycles of the gap-filling script on one video *)

MaxCycles == 2

\* minutes between the last stored entry and the cycle
GapMinutes == {20, 45, 46, 60, 95}

\* the API's answers for the video
Items == {NoItem, ItemNoCount, ItemCount(7001)}

\* a history two entries short of the retention limit, one entry a minute
LongHistory == [i \in 1..(MaxHistory - 2) |-> Real(i * MinuteMs, 1000 + i)]

\* stored histories the cycles start from: none, one entry, a legacy date
\* entry, rising and falling views, a predicted tail, a long one
StoredHistories ==
    { <<>>,
      <<Real(0, 1000)>>,
      <<Legacy(0, 1000)>>,
      <<Real(0, 1000), Real(30 * MinuteMs, 1100)>>,
      <<Real(0, 100), Real(30 * MinuteMs, 10)>>,
      <<Real(0, 1000), Predicted(30 * MinuteMs, 1050)>>,
      LongHistory }

InitGap ==
    /\ pc = "stored"
    /\ history \in StoredHistories
    /\ untrimmed = history /\ prev = <<>> /\ dropped = 0 /\ cycles = 0
    /\ now = DateOf(0) /\ views = 0
    /\ pts = Idle /\ again = Idle /\ target = Idle /\ pred = Idle
    /\ days = Idle /\ tz = Idle /\ delta = Idle /\ slope = Idle
    /\ base = Idle /\ at = Idle
    /\ BatchIdle /\ rate = Idle
    /\ LateIdle

\* the instant the next cycle's gap is counted from: the last stored entry's
\* time, or the previous cycle's time when the history holds none
CycleBase ==
    IF Len(history) > 0 /\ IsValidDate(parseHistoryEntryDatetime(Last(history)))
    THEN parseHistoryEntryDatetime(Last(history)).ms
    ELSE now.ms

\* the entries of untrimmed that the stored history no longer holds
Older == SubSeq(untrimmed, 1, Len(untrimmed) - Len(history))

\* a cycle whose fetch failed, at g minutes after the last stored entry; a
\* cycle runs at the very instant of the last entry only on stored data
FailureCycle ==
    /\ cycles < MaxCycles
    /\ \E g \in GapMinutes \cup {0} :
          /\ g = 0 => cycles = 0
          /\ now' = DateOf(CycleBase + g * MinuteMs)
          /\ untrimmed' = Older \o FailureHistory(history, nowISO(now'))
          /\ history' = trimHistory(FailureHistory(history, nowISO(now')), MaxHistory)
    /\ prev' = history
    /\ dropped' = Len(untrimmed) - Len(history)
    /\ cycles' = cycles + 1
    /\ pc' = "failure"
    /\ UNCHANGED <<pts, again, target, pred, days, tz, delta, views, slope, base, at, batchVars, rate, lateVars>>

\* a cycle whose fetch succeeded
SuccessCycle ==
    /\ cycles < MaxCycles
    /\ \E g \in GapMinutes \cup {0}, item \in Items :
          /\ g = 0 => cycles = 0
          /\ now' = DateOf(CycleBase + g * MinuteMs)
          /\ views' = FetchedViews(item, history)
          /\ untrimmed' = Older \o SuccessHistory(history, nowISO(now'), views')
          /\ history' = trimHistory(SuccessHistory(history, nowISO(now'), views'),
                                    MaxHistory)
    /\ prev' = history
    /\ dropped' = Len(untrimmed) - Len(history)
    /\ cycles' = cycles + 1
    /\ pc' = "success"
    /\ UNCHANGED <<pts, again, target, pred, days, tz, delta, slope, base, at, batchVars, rate, lateVars>>

NextGap == FailureCycle \/ SuccessCycle

SpecGap == InitGap /\ [][NextGap]_vars


-----------------------------------------------------------------------------
(* Claims about the collection cycles *)

\* the history the last cycle built, before trimHistory
Built == SubSeq(untrimmed, dropped + 1, Len(untrimmed))

\* the entries the last cycle pushed
Appended == SubSeq(Built, Len(prev) + 1, Len(Built))

\* the last stored entry's time and the gap from it to the cycle, ms
PrevTime == parseHistoryEntryDatetime(Last(prev))
GapMs == now.ms - PrevTime.ms

\* the cycle started from a history whose last entry has a valid time
HadLast == Len(prev) > 0 /\ IsValidDate(PrevTime)

\* the multiples of 30 minutes strictly inside a gap
StepsInside(gapMs) == IF gapMs <= 0 THEN 0 ELSE (gapMs - 1) \div HalfHourMs

\* max(0, round(lastViews + r * minutes)) for the history the cycle started
\* from, ms after its last entry
Extrapolated(ms) ==
    Stored(RMax(Zero, MathRound(RAdd(R(Last(prev).views),
                                     RMul(estimateRatePerMinute(prev, 6),
                                          Rat(ms, MinuteMs))))))

\* the failure path pushed k entries half an hour apart and one at the cycle
\* time, every one extrapolated, none negative, rising when the rate is >= 0
FailureShape(k) ==
    /\ Len(Appended) = k + 1
    /\ \A i \in 1..k :
          Appended[i] = Predicted(PrevTime.ms + i * HalfHourMs,
                                  Extrapolated(i * HalfHourMs))
    /\ Appended[k + 1] = Predicted(now.ms, Extrapolated(GapMs))
    /\ \A i \in 1..(k + 1) : Appended[i].views >= 0
    /\ RGe(estimateRatePerMinute(prev, 6), Zero)
          => \A i \in 1..k : Appended[i].views <= Appended[i + 1].views

\* C3 as stated: a failure cycle g minutes after the last entry pushes
\* floor(g/30) predicted entries and the one at the cycle time.
C3_FloorCount == (pc = "failure" /\ HadLast) => FailureShape(GapMs \div HalfHourMs)

\* C3: a failure cycle pushes one predicted entry at each multiple of 30
\* minutes strictly inside the gap (floor(g/30), less one when g is a whole
\* multiple of 30) and one at the cycle time; each carries
\* max(0, round(lastViews + r * minutes)), none is negative, and they do not
\* decrease when r >= 0.
C3_FailureAppends == (pc = "failure" /\ HadLast) => FailureShape(StepsInside(GapMs))

\* a failure cycle exactly an hour after the last entry, with a falling rate
\* that the floor at 0 cuts off
C3_Witness ==
    /\ pc = "failure" /\ HadLast /\ GapMs = 2 * HalfHourMs
    /\ Len(Appended) = 2
    /\ RLt(estimateRatePerMinute(prev, 6), Zero)
    /\ Appended[2].views = 0

\* the entries the success path pushed before the one of the cycle time
Inserted == SubSeq(Built, Len(prev) + 1, Len(Built) - 1)

\* round(a + (b - a) * elapsed / gap) between the last stored and the fetched views
Interpolation(ms) ==
    Stored(MathRound(RAdd(R(Last(prev).views),
                          RMul(R(views - Last(prev).views), Rat(ms, GapMs)))))

\* C4: a success cycle more than 45 minutes after the last entry inserts one
\* predicted entry at every 30-minute step strictly inside the gap, holding
\* the rounded linear interpolation; a cycle at most 45 minutes after it
\* inserts none.
C4_SuccessInterpolates ==
    (pc = "success" /\ HadLast) =>
        IF GapMs > 45 * MinuteMs
        THEN /\ Len(Inserted) = StepsInside(GapMs)
             /\ \A i \in 1..Len(Inserted) :
                   Inserted[i] = Predicted(PrevTime.ms + i * HalfHourMs,
                                           Interpolation(i * HalfHourMs))
        ELSE /\ \A i \in 1..Len(Built) : Built[i].predicted => i <= Len(prev)
             /\ Len(Built) <= Len(prev) + 1

\* a 95-minute gap filled with three interpolated entries that differ
C4_Witness ==
    /\ pc = "success" /\ HadLast
    /\ GapMs = 95 * MinuteMs /\ Len(Inserted) = 3
    /\ Inserted[1].views < Inserted[2].views
    /\ Inserted[3].views < views

\* C5: after a success cycle the history ends with a non-predicted entry at
\* the cycle time holding the fetched views, and no other entry has that
\* instant: an entry already stored at it was replaced.
C5_EndsWithFetched ==
    pc = "success" =>
        /\ Last(history) = Entry(nowISO(now), Absent, views, FALSE)
        /\ Cardinality({i \in 1..Len(history) :
                          parseHistoryEntryDatetime(history[i]) = now}) = 1

\* a cycle at the very instant of the last stored entry, a legacy date entry,
\* with other views: the entry is replaced
C5_Witness ==
    /\ pc = "success" /\ HadLast /\ GapMs = 0
    /\ Truthy(Last(prev).date)
    /\ Len(history) = Len(prev)
    /\ Last(prev).views # views

\* C6: the stored history has at most 5000 entries and is the most recent
\* part of the history as it would be with nothing ever dropped.
C6_TrimKeepsNewest ==
    /\ Len(history) <= MaxHistory
    /\ Len(history) = (IF Len(untrimmed) <= MaxHistory THEN Len(untrimmed) ELSE MaxHistory)
    /\ history = SubSeq(untrimmed, Len(untrimmed) - Len(history) + 1, Len(untrimmed))

\* two cycles, a failure then a success, both dropping entries
C6_Witness ==
    /\ pc = "success" /\ cycles = 2
    /\ Len(prev) > 0 /\ Last(prev).predicted
    /\ dropped > 0
    /\ Len(untrimmed) > MaxHistory + dropped
    /\ Len(history) = MaxHistory


-----------------------------------------------------------------------------
(* preprocessHistory applied to raw histories, and to its own output *)

MaxRaw == 3

\* raw entries: full instants 1 and 3 ms apart and a minute later, two entries
\* of one instant, a legacy date entry of that instant, an unparsable
\* datetime, an unparsable date, an entry with neither field
RawEntries ==
    { Real(0, 10), Real(0, 20), Real(1, 30), Real(3, 40), Real(MinuteMs, 50),
      Legacy(0, 60),
      Entry(Garbage, Absent, 70, FALSE),
      Entry(Absent, Garbage, 80, FALSE),
      Entry(Absent, Absent, 90, FALSE) }

InitPre ==
    /\ pc = "input"
    /\ history \in SeqsUpTo(RawEntries, MaxRaw)
    /\ pts = <<>> /\ again = [threw |-> FALSE, pts |-> <<>>]
    /\ target = Idle /\ pred = Idle
    /\ now = Idle /\ days = Idle /\ tz = Idle /\ delta = Idle
    /\ prev = Idle /\ views = Idle /\ untrimmed = Idle /\ dropped = Idle /\ cycles = Idle
    /\ slope = Idle /\ base = Idle /\ at = Idle
    /\ BatchIdle /\ rate = Idle
    /\ LateIdle

\* computeAdvancedSlope calls preprocessHistory(history)
Preprocess ==
    /\ pc = "input"
    /\ pts' \in PreprocessOutcomes(history)
    /\ pc' = "preprocessed"
    /\ UNCHANGED <<history, again, target, pred, now, days, tz, delta,
                   prev, views, untrimmed, dropped, cycles, slope, base, at, batchVars, rate, lateVars>>

\* the points as history entries { datetime: p.t.toISOString(), views: p.v }
EntriesOfPoints(points) ==
    [i \in 1..Len(points) |-> Entry(ToISOString(points[i].t), Absent, points[i].v, FALSE)]

\* preprocessHistory applied to the points it returned; toISOString() throws
\* a RangeError on an Invalid Date
Reapply ==
    /\ pc = "preprocessed"
    /\ IF AllValid(pts)
       THEN \E out \in PreprocessOutcomes(EntriesOfPoints(pts)) :
               again' = [threw |-> FALSE, pts |-> out]
       ELSE again' = [threw |-> TRUE, pts |-> <<>>]
    /\ pc' = "reapplied"
    /\ UNCHANGED <<history, pts, target, pred, now, days, tz, delta,
                   prev, views, untrimmed, dropped, cycles, slope, base, at, batchVars, rate, lateVars>>

NextPre == Preprocess \/ Reapply

SpecPre == InitPre /\ [][NextPre]_vars

-----------------------------------------------------------------------------
(* Claims about preprocessHistory *)

\* the raw entries whose timestamp resolves to an instant
Resolvable(h) == IsValidDate(EntryTime(h))

\* the position of the last raw entry within the tolerance of the time tsMin
LastNear(tsMin) ==
    CHOOSE i \in 1..Len(history) :
        /\ Resolvable(history[i])
        /\ RLt(RAbs(RSub(Point(history[i]).tsMin, tsMin)), DupEps)
        /\ \A j \in (i + 1)..Len(history) :
              ~(Resolvable(history[j])
                /\ RLt(RAbs(RSub(Point(history[j]).tsMin, tsMin)), DupEps))

\* C7: the output's times are strictly increasing, adjacent points at least
\* the tolerance apart, and of the raw entries within the tolerance of one
\* another only the later one survives.
C7_StrictlyIncreasing ==
    pc # "input" =>
        /\ \A i \in 1..(Len(pts) - 1) :
              RLe(RAdd(pts[i].tsMin, DupEps), pts[i + 1].tsMin)
        /\ \A i \in 1..Len(pts) :
              /\ IsFinite(pts[i].tsMin)
              /\ pts[i] = Point(history[LastNear(pts[i].tsMin)])

C9_UnresolvableDropped ==
    pc # "input" =>
        /\ Len(pts) <= Len(SelectSeq(history, Resolvable))
        /\ \A i \in 1..Len(pts) : IsFinite(pts[i].tsMin) /\ IsValidDate(pts[i].t)


-----------------------------------------------------------------------------
(* The estimator and the predictor on perfectly linear histories *)

MaxLinear == 3
MaxEven == 6

\* Histories of up to MaxLinear entries with uneven steps and of up to MaxEven
\* entries half an hour apart.  Minutes between consecutive entries, views
\* gained per half hour, minutes from the last entry to the prediction target:
StepMinutes == {30, 60}
GainPerHalfHour == {0, 7, 100}
AheadMinutes == {7, 30, 45, 1440}

\* the time of entry i, for the steps st between consecutive entries
RECURSIVE TimeAt(_, _)
TimeAt(st, i) == IF i = 1 THEN 0 ELSE TimeAt(st, i - 1) + st[i - 1] * MinuteMs

\* the history on the line through (0, 1000) gaining g views per half hour
LinearHistory(st, g) ==
    [i \in 1..(Len(st) + 1) |->
        Real(TimeAt(st, i), 1000 + g * (TimeAt(st, i) \div HalfHourMs))]

InitLinear ==
    /\ pc = "input"
    /\ \E g \in GainPerHalfHour :
          \/ \E n \in 1..(MaxLinear - 1) :
                \E st \in [1..n -> StepMinutes] : history = LinearHistory(st, g)
          \/ \E n \in 1..(MaxEven - 1) :
                history = LinearHistory([i \in 1..n |-> 30], g)
    /\ pts = Idle /\ again = Idle
    /\ target = Idle /\ pred = Idle
    /\ now = Idle /\ days = Idle /\ tz = Idle /\ delta = Idle
    /\ prev = Idle /\ views = Idle /\ untrimmed = Idle /\ dropped = Idle /\ cycles = Idle
    /\ slope = Idle /\ base = Idle /\ at = Idle
    /\ BatchIdle /\ rate = Idle
    /\ LateIdle

\* predictValueAt(history, t) for a time t after the last entry
PredictAhead ==
    /\ pc = "input"
    /\ \E a \in AheadMinutes :
          /\ target' = DateOf(EntryTime(Last(history)).ms + a * MinuteMs)
          /\ pred' = predictValueAt(history, target')
    /\ pc' = "predicted"
    /\ UNCHANGED <<history, pts, again, now, days, tz, delta,
                   prev, views, untrimmed, dropped, cycles, slope, base, at, batchVars, rate, lateVars>>

NextLinear == Slope \/ PredictAhead

SpecLinear == InitLinear /\ [][NextLinear]_vars

\* the per-minute rate between the first two entries
FirstRate ==
    Rat((history[2].views - history[1].views) * MinuteMs,
        EntryTime(history[2]).ms - EntryTime(history[1]).ms)

\* at least two entries, times strictly increasing, every entry on the line
\* through the first two, which does not fall
IsLinear ==
    /\ Len(history) >= 2
    /\ \A i \in 1..(Len(history) - 1) :
          EntryTime(history[i]).ms < EntryTime(history[i + 1]).ms
    /\ history[2].views >= history[1].views
    /\ \A i \in 1..Len(history) :
          (history[i].views - history[1].views)
              * ((EntryTime(history[2]).ms - EntryTime(history[1]).ms) \div MinuteMs)
          = (history[2].views - history[1].views)
              * ((EntryTime(history[i]).ms - EntryTime(history[1]).ms) \div MinuteMs)

\* C10: on a linear history of rate r >= 0 computeAdvancedSlope returns
\* slope_final = r, and predictValueAt at a later time t returns
\* round(lastViews + r * (t - lastTime)).
C10_LinearExact ==
    /\ (pc = "slope" /\ IsLinear) => slope.slope_final = FirstRate
    /\ (pc = "predicted" /\ IsLinear) =>
          pred = MathRound(RAdd(R(Last(history).views),
                                RMul(FirstRate,
                                     Rat(target.ms - EntryTime(Last(history)).ms,
                                         MinuteMs))))

\* the history (t0, 1000), (t0 + 30 min, 1100) predicted at t0 + 60 min: 1200
C10_Witness ==
    /\ pc = "predicted" /\ IsLinear
    /\ history = <<Real(0, 1000), Real(30 * MinuteMs, 1100)>>
    /\ target = DateOf(60 * MinuteMs)
    /\ pred = R(1200)


-----------------------------------------------------------------------------
(* The estimator on a regular history with one outlier segment *)

MaxRegular == 7

\* views gained per half hour by the regular history, whose entries are three
\* hours apart
RegularGain == {1, 2, 3, 5, 10}

\* the history h with the gain of segment k (from entry k to entry k + 1)
\* made 100 times what it was, the later entries keeping their own gains
Injected(h, k) ==
    [i \in 1..Len(h) |->
        IF i <= k THEN h[i]
        ELSE [h[i] EXCEPT !.views = h[i].views + 99 * (h[k + 1].views - h[k].views)]]

InitOutlier ==
    /\ pc = "input"
    /\ \E n \in 2..(MaxRegular - 1), g \in RegularGain :
          history = LinearHistory([i \in 1..n |-> 180], g)
    /\ pts = Idle /\ again = Idle
    /\ target = Idle /\ pred = Idle
    /\ now = Idle /\ days = Idle /\ tz = Idle /\ delta = Idle
    /\ prev = Idle /\ views = Idle /\ untrimmed = Idle /\ dropped = Idle /\ cycles = Idle
    /\ slope = Idle /\ base = Idle /\ at = Idle
    /\ BatchIdle /\ rate = Idle
    /\ LateIdle

\* the segments an outlier is injected into: the oldest and the most recent
\* one, and every segment of a history of at most 4 entries
OutlierSegments(h) ==
    {k \in 1..(Len(h) - 1) : k = 1 \/ k = Len(h) - 1 \/ Len(h) <= 4}

\* the outlier enters segment k and computeAdvancedSlope runs again
InjectOutlier ==
    /\ pc = "slope"
    /\ \E k \in OutlierSegments(history) :
          /\ at' = k
          /\ history' = Injected(history, k)
          /\ slope' = computeAdvancedSlope(Injected(history, k))
    /\ base' = slope
    /\ pc' = "injected"
    /\ UNCHANGED <<pts, again, target, pred, now, days, tz, delta,
                   prev, views, untrimmed, dropped, cycles, batchVars, rate, lateVars>>

NextOutlier == Slope \/ InjectOutlier

SpecOutlier == InitOutlier /\ [][NextOutlier]_vars

\* the good set of computeAdvancedSlope for the history, as positions
GoodSet(h) ==
    GoodIdx(preprocessHistory(h), median(SegRates(preprocessHistory(h))),
            OrElse(mad(SegRates(preprocessHistory(h))), MadFloor))

\* the fraction of the outlier-free estimate taken as small
SmallFraction == Rat(1, 2)

\* C11: with one segment's gain made 100 times larger, slope_final stays
\* within a small fraction of the outlier-free estimate, and neither end point
\* of that segment is in the good set.
C11_OutlierRobust ==
    pc = "injected" =>
        /\ RLe(RAbs(RSub(slope.slope_final, base.slope_final)),
               RMul(SmallFraction, base.slope_final))
        /\ \A j \in 1..Len(GoodSet(history)) :
              GoodSet(history)[j] # at /\ GoodSet(history)[j] # at + 1


-----------------------------------------------------------------------------
(* Claims about the base tick of the delta calculator *)

\* the instants (ms) of the entries whose timestamp is a valid instant
ObservedTimes(h) ==
    {EntryTime(h[i]).ms : i \in {j \in 1..Len(h) : IsValidDate(EntryTime(h[j]))}}

EarliestObserved(h) == CHOOSE m \in ObservedTimes(h) : \A o \in ObservedTimes(h) : m <= o

\* now - days * 24h
WindowStart == DateFromNumber(RSub(GetTime(now), RMul(days, R(DayMs))))

LaterTick(a, b) == IF a.ms < b.ms THEN b ELSE a

\* C12: the base tick is the later of floorToHalfHour(now - days * 24h) and
\* floorToHalfHour(earliest observation time); a history that starts after the
\* window start has its base prediction taken at the earliest observation's tick.
C12_BaseTickIsLater ==
    (pc = "delta" /\ ~IsNaN(days) /\ ObservedTimes(history) # {})
        => BaseTick(history, days, now, tz)
               = LaterTick(floorToHalfHour(WindowStart, tz),
                           floorToHalfHour(DateOf(EarliestObserved(history)), tz))


-----------------------------------------------------------------------------
(* The collection cycle over the whole list: main's batch loop *)

NumVideos == 3
\* the videos fetched in one request (50 in main): the list spans two chunks
batchSize == 2

VideoIds == 1..NumVideos

\* the orders the list can name the videos in
Orders == {o \in [1..NumVideos -> VideoIds] : \A a, b \in 1..NumVideos : o[a] = o[b] => a = b}

\* stored histories: none, one entry, one whose last entry has neither
\* datetime nor date
BatchHistories ==
    { <<>>,
      <<Real(0, 1000)>>,
      <<Real(0, 1000), Entry(Absent, Absent, 1100, FALSE)>> }

\* minutes from one cycle to the next
BatchGaps == {20, 95}

\* the fetch of the video's chunk threw
Failed == [kind |-> "failed", n |-> 0]
BatchItems == {NoItem, ItemCount(7001)}

\* entries.slice(i, i + batchSize)
Chunk(list, i) ==
    SubSeq(list, i + 1, IF i + batchSize < Len(list) THEN i + batchSize ELSE Len(list))

\* the element pushed to results for a video of a chunk whose fetch failed
FailedVideo(id, map, currentIso) ==
    [videoId |-> id,
     history |-> trimHistory(FailureHistory(map[id], currentIso), MaxHistory)]

\* the element pushed to results for a video of a fetched chunk
FetchedVideo(id, map, item, currentIso) ==
    [videoId |-> id,
     history |-> trimHistory(SuccessHistory(map[id], currentIso,
                                            FetchedViews(item, map[id])),
                             MaxHistory)]

\* one pass of the batch loop reading, for every video of the chunk, the item
\* the API returned for the chunk's first video
ChunkResults_firstItem(chunk, map, got, currentIso) ==
    [k \in 1..Len(chunk) |->
        IF got[chunk[k]] = Failed THEN FailedVideo(chunk[k], map, currentIso)
        ELSE FetchedVideo(chunk[k], map, got[chunk[1]], currentIso)]

\* what one pass of the batch loop pushes to results, got[id] being Failed
\* for every video of the chunk or the API's item for each of them
ChunkResults(chunk, map, got, currentIso) ==
    [k \in 1..Len(chunk) |->
        IF got[chunk[k]] = Failed THEN FailedVideo(chunk[k], map, currentIso)
        ELSE FetchedVideo(chunk[k], map, got[chunk[k]], currentIso)]

ChunkIds(chunk) == {chunk[k] : k \in 1..Len(chunk)}

InitBatch ==
    /\ pc = "stored"
    /\ videos \in [VideoIds -> BatchHistories]
    /\ existingMap = videos
    /\ entries = <<>> /\ chunkStart = 0 /\ results = <<>> /\ fetched = <<>>
    /\ now = DateOf(0) /\ cycles = 0
    /\ history = Idle /\ pts = Idle /\ again = Idle /\ target = Idle /\ pred = Idle
    /\ days = Idle /\ tz = Idle /\ delta = Idle
    /\ prev = Idle /\ views = Idle /\ untrimmed = Idle /\ dropped = Idle
    /\ slope = Idle /\ base = Idle /\ at = Idle /\ rate = Idle
    /\ LateIdle

\* main up to the batch loop: the stored file and the list are read, the
\* cycle time is taken (one run of the script is one cycle)
StartCycle ==
    /\ pc = "stored"
    /\ \E g \in BatchGaps : now' = DateOf(now.ms + g * MinuteMs)
    /\ entries' \in Orders
    /\ existingMap' = videos
    /\ chunkStart' = 0 /\ results' = <<>> /\ fetched' = <<>>
    /\ pc' = "fetching"
    /\ UNCHANGED <<history, pts, again, target, pred, days, tz, delta, prev, views,
                   untrimmed, dropped, cycles, slope, base, at, videos, rate, lateVars>>

\* one pass of the batch loop with fetchJson throwing
FetchFails ==
    /\ pc = "fetching"
    /\ chunkStart < Len(entries)
    /\ results' = results \o ChunkResults(Chunk(entries, chunkStart), existingMap,
                                           [v \in VideoIds |-> Failed], nowISO(now))
    /\ fetched' = fetched @@ [v \in ChunkIds(Chunk(entries, chunkStart)) |-> Failed]
    /\ chunkStart' = chunkStart + batchSize
    /\ UNCHANGED <<pc, history, pts, again, target, pred, now, days, tz, delta, prev,
                   views, untrimmed, dropped, cycles, slope, base, at,
                   videos, existingMap, entries, rate, lateVars>>

\* one pass of the batch loop with a response
FetchSucceeds ==
    /\ pc = "fetching"
    /\ chunkStart < Len(entries)
    /\ \E got \in [ChunkIds(Chunk(entries, chunkStart)) -> BatchItems] :
          /\ results' = results \o ChunkResults(Chunk(entries, chunkStart), existingMap,
                                                 got, nowISO(now))
          /\ fetched' = fetched @@ got
    /\ chunkStart' = chunkStart + batchSize
    /\ UNCHANGED <<pc, history, pts, again, target, pred, now, days, tz, delta, prev,
                   views, untrimmed, dropped, cycles, slope, base, at,
                   videos, existingMap, entries, rate, lateVars>>

\* the history results holds for the video
HistoryOf(res, v) == res[CHOOSE k \in 1..Len(res) : res[k].videoId = v].history

\* the loop is over: results are written to data/videos.json
WriteFile ==
    /\ pc = "fetching"
    /\ chunkStart >= Len(entries)
    /\ videos' = [v \in VideoIds |-> HistoryOf(results, v)]
    /\ cycles' = cycles + 1
    /\ pc' = "written"
    /\ UNCHANGED <<history, pts, again, target, pred, now, days, tz, delta, prev,
                   views, untrimmed, dropped, slope, base, at,
                   existingMap, entries, chunkStart, results, fetched, rate, lateVars>>

NextBatch == StartCycle \/ FetchFails \/ FetchSucceeds \/ WriteFile

SpecBatch == InitBatch /\ [][NextBatch]_vars

-----------------------------------------------------------------------------
(* Claims about the cycle over the whole list *)

\* the entry carries a timestamp that is a valid instant
HasTime(e) == IsValidDate(parseHistoryEntryDatetime(e))

\* C13: after a cycle, every video that had a stored entry with a resolvable
\* timestamp ends with an entry at the cycle time; a failed fetch changes the
\* history of such a video, and every video of the list has its result.
C13_EndsAtCycleTime ==
    pc = "written" =>
        /\ {results[k].videoId : k \in 1..Len(results)} = VideoIds
        /\ \A v \in VideoIds :
              (\E k \in 1..Len(existingMap[v]) : HasTime(existingMap[v][k]))
                  => /\ Len(videos[v]) > 0
                     /\ Last(videos[v]).datetime = nowISO(now)
                     /\ fetched[v] = Failed => videos[v] # existingMap[v]


-----------------------------------------------------------------------------
(* Claims about the predictor's edge cases *)

\* C14: when preprocessing leaves fewer than 2 points, computeAdvancedSlope
\* returns slope_reg = slope_ema = slope_final = r2 = 0 and predictValueAt
\* returns the last entry's views whatever the target time.
C14_FewPointsZeroSlope ==
    (pc = "predicted" /\ Len(history) > 0 /\ Len(preprocessHistory(history)) < 2)
        => /\ computeAdvancedSlope(history).slope_reg = Zero
           /\ computeAdvancedSlope(history).slope_ema = Zero
           /\ computeAdvancedSlope(history).slope_final = Zero
           /\ computeAdvancedSlope(history).r2 = Zero
           /\ pred = R(ViewsOf(Last(history)))

\* two entries of the same instant collapse to one point; the prediction three
\* hours later is the last entry's views
C14_Witness ==
    /\ pc = "predicted"
    /\ history = <<Real(0, 1000), Real(0, 1100)>>
    /\ Len(preprocessHistory(history)) = 1
    /\ target = DateOf(TickMs)
    /\ pred = R(1100)


\* the last entry carries neither a datetime nor a date
LastHasNoTime == Len(history) > 0 /\ IsNull(EntryTime(Last(history)))

\* C15 as stated: predictValueAt returns 0 when the history is empty and when
\* its last entry carries neither a datetime nor a date.
C15_ZeroWithoutLast ==
    (pc = "predicted" /\ (Len(history) = 0 \/ LastHasNoTime)) => pred = Zero

\* C15: predictValueAt returns 0 for the empty history, and the last entry's
\* views when the last entry carries neither a datetime nor a date.
C15_LastViewsWithoutTime ==
    pc = "predicted" =>
        /\ Len(history) = 0 => pred = Zero
        /\ LastHasNoTime => pred = R(ViewsOf(Last(history)))

\* a dated entry followed by one without a timestamp: the prediction is the
\* latter's views
C15_Witness ==
    /\ pc = "predicted"
    /\ history = <<Real(0, 1000), Entry(Absent, Absent, 1100, FALSE)>>
    /\ LastHasNoTime
    /\ target = DateOf(TickMs)
    /\ pred = R(1100)


\* max(10 * |medRate|, 1)
SlopeCap(medRate) == RMax(RMul(R(10), RAbs(medRate)), One)

\* C16: for every history the slope_final computeAdvancedSlope returns is at
\* least 0 and at most max(10 * |medRate|, 1).
C16_SlopeFinalBounded ==
    pc = "slope" =>
        /\ RLe(Zero, slope.slope_final)
        /\ RLe(slope.slope_final, SlopeCap(slope.medRate))


\* lastViews + slope * minutes from the last entry to the target
RawPrediction ==
    RAdd(R(Last(history).views),
         RMul(computeAdvancedSlope(history).slope_final,
              RDiv(RSub(GetTime(target), GetTime(EntryTime(Last(history)))),
                   R(MinuteMs))))

\* raw replaced by lastViews when not finite and by 0 when negative, then
\* rounded
Replaced(raw, lastViews) ==
    IF IsNaN(raw) THEN lastViews
    ELSE IF RLt(raw, Zero) THEN Zero
    ELSE MathRound(raw)

\* C17: predictValueAt returns a non-negative integer for every history and
\* every target time; when the last entry has a timestamp it is
\* round(lastViews + slope * minutes), lastViews when that is not finite and 0
\* when it is negative.
C17_NonNegativeInteger ==
    pc = "predicted" =>
        /\ IsInteger(pred) /\ RGe(pred, Zero)
        /\ (Len(history) > 0 /\ ~IsNull(EntryTime(Last(history))))
               => pred = Replaced(RawPrediction, R(Last(history).views))

\* a target long before the entries, where the raw value is negative and not
\* an integer, and the prediction is 0
C17_Witness ==
    /\ pc = "predicted" /\ HasLast /\ IsValidDate(target)
    /\ RLt(RawPrediction, Zero) /\ ~IsInteger(RawPrediction)
    /\ pred = Zero


-----------------------------------------------------------------------------
(* Claims about what a cycle leaves alone *)

\* the new real observation carries the timestamp of the last stored entry
SameStamp ==
    pc = "success" /\ Len(prev) > 0 /\ isoFromEntry(Last(prev)) = nowISO(now)

\* the entries of before from number d + 1 on are the first entries of after,
\* unchanged and in order, the last one excepted when the cycle updated it
KeptFrom(d, before, after) ==
    /\ Len(after) >= Len(before) - d
    /\ \A k \in (d + 1)..Len(before) :
          \/ after[k - d] = before[k]
          \/ k = Len(before) /\ SameStamp

\* C18: a cycle changes no stored entry: but for the oldest entries trimming
\* removes, every entry stored before the cycle is there afterwards, unchanged
\* and in the same order, except the last one when the new real observation
\* has its timestamp.
C18_StoredEntriesKept ==
    pc \in {"failure", "success"} =>
        \E d \in 0..Len(prev) :
            /\ d > 0 => Len(history) = MaxHistory
            /\ KeptFrom(d, prev, history)

\* a fetch at the instant of the last stored entry: that entry is replaced, the
\* one before it is kept
C18_Witness ==
    /\ SameStamp
    /\ Len(prev) = 2 /\ Len(history) = 2
    /\ history[1] = prev[1]
    /\ history[2] # prev[2]
    /\ history[2].datetime = prev[2].datetime


-----------------------------------------------------------------------------
(* The trailing rate of the failure path *)

MaxRated == 7

\* entry i of a history whose views rise ever faster (bend = 1) or fall
\* (bend = -1), the entries 30 minutes apart forwards (dir = 1), backwards
\* (dir = -1) or all at one instant (dir = 0)
RatedEntry(i, isPredicted, bend, dir) ==
    Entry(IsoStr((10 + dir * i) * HalfHourMs), Absent, 5000 + bend * 10 * i * i,
          isPredicted)

RatedHistories ==
    UNION {{[i \in 1..n |-> RatedEntry(i, flags[i], bend, dir)] :
                flags \in [1..n -> BOOLEAN], bend \in {1, -1}, dir \in {1, 0, -1}} :
           n \in 0..MaxRated}

InitRate ==
    /\ pc = "input"
    /\ history \in RatedHistories
    /\ pts = Idle /\ again = Idle
    /\ target = Idle /\ pred = Idle
    /\ now = Idle /\ days = Idle /\ tz = Idle /\ delta = Idle
    /\ prev = Idle /\ views = Idle /\ untrimmed = Idle /\ dropped = Idle /\ cycles = Idle
    /\ slope = Idle /\ base = Idle /\ at = Idle
    /\ BatchIdle /\ rate = Idle
    /\ LateIdle

\* const ratePerMin = estimateRatePerMinute(history, 6)
EstimateRate ==
    /\ pc = "input"
    /\ rate' = estimateRatePerMinute(history, 6)
    /\ pc' = "rate"
    /\ UNCHANGED <<history, pts, again, target, pred, now, days, tz, delta,
                   prev, views, untrimmed, dropped, cycles, slope, base, at, batchVars, lateVars>>

NextRate == EstimateRate

SpecRate == InitRate /\ [][NextRate]_vars

\* the positions the rate is taken over: those of the non-predicted entries,
\* or all when fewer than 2 entries are non-predicted, the last 6 of them
RatedPositions ==
    LET actual == {i \in 1..Len(history) : ~history[i].predicted}
        from == IF Cardinality(actual) < 2 THEN 1..Len(history) ELSE actual
    IN  {i \in from : Cardinality({j \in from : j > i}) < 6}

Oldest(S) == CHOOSE i \in S : \A j \in S : i <= j
Newest(S) == CHOOSE i \in S : \A j \in S : j <= i

\* the view changes of the window's consecutive pairs add up to the change
\* from its oldest to its newest entry, and so do the elapsed minutes
WindowViews(S) == history[Newest(S)].views - history[Oldest(S)].views
WindowMinutes(S) ==
    Rat(EntryTime(history[Newest(S)]).ms - EntryTime(history[Oldest(S)]).ms, MinuteMs)

\* C19: the trailing rate is the view change over the elapsed minutes of the
\* last up to 6 non-predicted entries, or of the last up to 6 entries when
\* fewer than 2 are non-predicted; it is 0 for fewer than 2 entries and when
\* the elapsed time is not positive.
C19_TrailingRate ==
    pc = "rate" =>
        rate = IF Len(history) < 2 THEN Zero
               ELSE IF RLe(WindowMinutes(RatedPositions), Zero) THEN Zero
               ELSE RDiv(R(WindowViews(RatedPositions)), WindowMinutes(RatedPositions))

\* seven entries, the second predicted: the window holds entries 1 and 3 to 7
\* and the rate differs from that of the last 6 entries and of all entries
C19_Witness ==
    /\ pc = "rate"
    /\ Len(history) = 7
    /\ RatedPositions = {1, 3, 4, 5, 6, 7}
    /\ history[7].views > history[1].views
    /\ EntryTime(history[7]).ms > EntryTime(history[1]).ms
    /\ rate = Rat(history[7].views - history[1].views, 180)
    /\ rate # Rat(history[7].views - history[2].views, 150)


-----------------------------------------------------------------------------
(* Claims about the independence of the videos within a cycle *)

\* the batch loop from i on, for the list in the given order
RECURSIVE RunFrom(_, _, _, _, _)
RunFrom(i, list, map, got, currentIso) ==
    IF i >= Len(list) THEN <<>>
    ELSE ChunkResults(Chunk(list, i), map, got, currentIso)
         \o RunFrom(i + batchSize, list, map, got, currentIso)

\* the cycle that agrees with the last one on video v's stored history, on the
\* cycle time and on v's fetch outcome, and on nothing else: the list is in
\* the order of the ids, the other videos have no history, and the API
\* returned no item for them
Reference(v) ==
    RunFrom(0, [k \in 1..NumVideos |-> k],
            [u \in VideoIds |-> IF u = v THEN existingMap[v] ELSE <<>>],
            [u \in VideoIds |-> IF u = v THEN fetched[v]
                                ELSE IF fetched[v] = Failed THEN Failed ELSE NoItem],
            nowISO(now))

\* C20: the history a cycle gives a video depends on the video's own stored
\* history, the cycle time and its own fetch outcome only: every cycle gives it
\* what the reference cycle gives it, whatever the other videos' histories and
\* outcomes and whatever the order of the list, so any two cycles agree.
C20_OwnInputsOnly ==
    pc = "written" =>
        \A v \in VideoIds : videos[v] = HistoryOf(Reference(v), v)

\* video 1 is processed last, after a chunk that was fetched, and its own fetch
\* fails 95 minutes after its only entry, while video 2 has a longer history
C20_Witness ==
    /\ pc = "written"
    /\ entries = <<3, 2, 1>>
    /\ existingMap[1] = <<Real(0, 1000)>> /\ Len(existingMap[2]) = 2
    /\ fetched[1] = Failed /\ fetched[2] = ItemCount(7001)
    /\ now = DateOf(95 * MinuteMs)
    /\ Len(videos[1]) = 5
    /\ videos[1] = HistoryOf(Reference(1), 1)


-----------------------------------------------------------------------------
(* The good set of computeAdvancedSlope *)

MaxGood == 4

\* the instant 5 ms after the third minute
ShortlyAfter == 3 * MinuteMs + 5

\* entries a minute apart and one 5 ms after the last, rising by 12000 views
\* a minute or staying level
GoodEntries ==
    {Real(0, 0), Real(MinuteMs, 12000), Real(MinuteMs, 0),
     Real(2 * MinuteMs, 24000), Real(2 * MinuteMs, 12000), Real(2 * MinuteMs, 0),
     Real(3 * MinuteMs, 36000), Real(3 * MinuteMs, 24000), Real(3 * MinuteMs, 12000),
     Real(ShortlyAfter, 36001), Real(ShortlyAfter, 36000), Real(ShortlyAfter, 24001),
     Real(ShortlyAfter, 24000)}

\* histories in time order, of distinct instants; the entry 5 ms after the
\* third minute follows the entry of that minute with at most 1 view more
GoodHistories ==
    {h \in UNION {[1..n -> GoodEntries] : n \in 2..MaxGood} :
        \A i \in 1..(Len(h) - 1) :
            /\ EntryTime(h[i]).ms < EntryTime(h[i + 1]).ms
            /\ EntryTime(h[i + 1]).ms = ShortlyAfter =>
                  /\ EntryTime(h[i]).ms = 3 * MinuteMs
                  /\ h[i + 1].views - h[i].views \in {0, 1}}

InitGood ==
    /\ pc = "input"
    /\ history \in GoodHistories
    /\ pts = Idle /\ again = Idle
    /\ target = Idle /\ pred = Idle
    /\ now = Idle /\ days = Idle /\ tz = Idle /\ delta = Idle
    /\ prev = Idle /\ views = Idle /\ untrimmed = Idle /\ dropped = Idle /\ cycles = Idle
    /\ slope = Idle /\ base = Idle /\ at = Idle
    /\ BatchIdle /\ rate = Idle
    /\ LateIdle

\* goodIdx and goodPts for the points and their rates
Selected(p, medRate, madRate) ==
    [idx |-> GoodIdx(p, medRate, madRate), pts |-> GoodPts(p, medRate, madRate)]

\* computeAdvancedSlope up to line 86, for a history that leaves at least 2
\* points and a segment
SelectGood ==
    /\ pc = "input"
    /\ Len(preprocessHistory(history)) >= 2
    /\ Len(SegRates(preprocessHistory(history))) > 0
    /\ pts' = preprocessHistory(history)
    /\ good' = Selected(preprocessHistory(history),
                        median(SegRates(preprocessHistory(history))),
                        OrElse(mad(SegRates(preprocessHistory(history))), MadFloor))
    /\ pc' = "good"
    /\ UNCHANGED <<history, again, target, pred, now, days, tz, delta, prev, views,
                   untrimmed, dropped, cycles, slope, base, at, batchVars, rate,
                   forecast, floored, refloored, appVars>>

NextGood == SelectGood

SpecGood == InitGood /\ [][NextGood]_vars

\* the rate of the segment after point i: view change over elapsed minutes
SegmentRate(i) ==
    RDiv(R(pts[i + 1].v - pts[i].v), RSub(pts[i + 1].tsMin, pts[i].tsMin))

\* the rate of that segment as the outlier test takes it: the elapsed minutes
\* are raised to 0.0001 when they are less
ClampedRate(i) ==
    RDiv(R(pts[i + 1].v - pts[i].v),
         IF RLt(RSub(pts[i + 1].tsMin, pts[i].tsMin), Rat(1, 10000)) THEN Rat(1, 10000)
         ELSE RSub(pts[i + 1].tsMin, pts[i].tsMin))

AllRates == [i \in 1..(Len(pts) - 1) |-> SegmentRate(i)]

\* the rate r is more than 6 floored MADs away from the median rate
Deviates(r) ==
    RGt(RAbs(RSub(r, median(AllRates))),
        RMul(R(6), IF mad(AllRates) = Zero THEN Rat(1, 1000000) ELSE mad(AllRates)))

\* the positions none of whose adjacent segment rates deviates
PassingRates ==
    {i \in 1..Len(pts) : /\ i < Len(pts) => ~Deviates(SegmentRate(i))
                         /\ i > 1 => ~Deviates(SegmentRate(i - 1))}

PassingClamped ==
    {i \in 1..Len(pts) : /\ i < Len(pts) => ~Deviates(ClampedRate(i))
                         /\ i > 1 => ~Deviates(ClampedRate(i - 1))}

\* the points at the positions S, in order
PointsAt(S) == SelectSeq(pts, LAMBDA q : \E i \in S : pts[i] = q)

\* the regression's points are those at the positions S, or all points when S
\* holds fewer than 2; there are at least 2 of them
RunsOn(S) ==
    /\ good.pts = IF Cardinality(S) < 2 THEN pts ELSE PointsAt(S)
    /\ Len(good.pts) >= 2

\* C21 as stated: the good set holds exactly the points none of whose adjacent
\* segment rates deviates from the median rate by more than 6 floored MADs.
C21_GoodByRates == pc = "good" => RunsOn(PassingRates)

\* C21: the good set holds exactly the points none of whose adjacent segment
\* rates, taken over at least 0.0001 minutes, deviates from the median rate by
\* more than 6 floored MADs; with fewer than 2 such points all points are used,
\* so the regression runs on at least 2 points, a subsequence of the points.
C21_GoodByClampedRates == pc = "good" => RunsOn(PassingClamped)

\* of four points two pass the test and the regression runs on those two
C21_Witness ==
    /\ pc = "good"
    /\ Len(pts) = 4
    /\ Len(good.idx) = 2
    /\ good.pts = PointsAt(PassingClamped)
    /\ good.pts # pts


-----------------------------------------------------------------------------
(* Order of the timestamps *)

\* every entry of h has a valid time, later than that of the entry before it
Increasing(h) ==
    /\ \A i \in 1..Len(h) : HasTime(h[i])
    /\ \A i \in 1..(Len(h) - 1) :
          parseHistoryEntryDatetime(h[i]).ms < parseHistoryEntryDatetime(h[i + 1]).ms

\* the cycle ran later than the last entry of the history it started from
RanLater == Len(prev) > 0 => PrevTime.ms < now.ms

\* C22: a cycle that starts from a history with strictly increasing timestamps
\* and runs later than its last entry leaves a history with strictly
\* increasing timestamps.
C22_StaysIncreasing ==
    (pc \in {"failure", "success"} /\ Increasing(prev) /\ RanLater)
        => Increasing(history) /\ Increasing(Built)

\* a second cycle, after a gap that made the first one push several entries,
\* pushed several entries again
C22_Witness ==
    /\ pc \in {"failure", "success"}
    /\ cycles = 2
    /\ Len(prev) >= 3
    /\ Increasing(prev) /\ RanLater
    /\ Len(Appended) >= 2


-----------------------------------------------------------------------------
(* Spacing of the entries a cycle leaves *)

\* from the entry that was last before the cycle to the new last entry, no
\* two consecutive entries are more than limit minutes apart
SpacedWithin(limit) ==
    \A i \in Len(prev)..(Len(Built) - 1) :
        /\ HasTime(Built[i + 1])
        /\ parseHistoryEntryDatetime(Built[i + 1]).ms
              - parseHistoryEntryDatetime(Built[i]).ms <= limit * MinuteMs

\* C23: after a cycle, consecutive entries from the previously last entry to
\* the new last entry are at most 45 minutes apart on the success path and at
\* most 30 minutes apart on the failure path, whatever the gap was.
C23_BoundedSpacing ==
    /\ (pc = "success" /\ HadLast) => SpacedWithin(45)
    /\ (pc = "failure" /\ HadLast) => SpacedWithin(30)

\* a success cycle exactly 45 minutes after the last entry pushed the fetched
\* entry alone
C23_Witness ==
    /\ pc = "success" /\ HadLast
    /\ GapMs = 45 * MinuteMs
    /\ Len(Appended) = 1


-----------------------------------------------------------------------------
(* Interpolated values of the success path *)

\* views of the last stored entry, below, at and above the fetched counts
FillViews == {0, 10, 7000, 7001, 7002, 9000}

\* stored histories of one entry, of a legacy date entry, and with a
\* predicted tail
FillHistories ==
    {<<Real(0, v)>> : v \in FillViews}
    \cup {<<Legacy(0, 1000)>>, <<Real(0, 1000), Predicted(30 * MinuteMs, 1050)>>}

InitFill ==
    /\ pc = "stored"
    /\ history \in FillHistories
    /\ untrimmed = history /\ prev = <<>> /\ dropped = 0 /\ cycles = 0
    /\ now = DateOf(0) /\ views = 0
    /\ pts = Idle /\ again = Idle /\ target = Idle /\ pred = Idle
    /\ days = Idle /\ tz = Idle /\ delta = Idle /\ slope = Idle
    /\ base = Idle /\ at = Idle
    /\ BatchIdle /\ rate = Idle
    /\ LateIdle

SpecFill == InitFill /\ [][NextGap]_vars

\* x lies between a and b, whichever is the larger
Between(x, a, b) == (a <= x /\ x <= b) \/ (b <= x /\ x <= a)

\* C24: on the success path every interpolated value lies between the last
\* stored views and the fetched views, the interpolated values are monotone in
\* time in the direction from the one to the other, and none is negative when
\* neither end is.
C24_InterpolatedBetween ==
    (pc = "success" /\ HadLast) =>
        /\ \A i \in 1..Len(Inserted) :
              /\ Inserted[i].predicted
              /\ Between(Inserted[i].views, Last(prev).views, views)
              /\ (Last(prev).views >= 0 /\ views >= 0) => Inserted[i].views >= 0
        /\ \A i \in 1..(Len(Inserted) - 1) :
              Between(Inserted[i].views, Last(prev).views, Inserted[i + 1].views)

\* fetched views below the last stored ones, and three interpolated values
\* that fall
C24_Witness ==
    /\ pc = "success" /\ HadLast
    /\ views < Last(prev).views
    /\ Len(Inserted) = 3
    /\ Inserted[1].views > Inserted[3].views
    /\ Inserted[3].views > views


-----------------------------------------------------------------------------
(* predictValueAt over the target time *)

\* the target that follows t among the targets in time order
LaterTarget(t) == IF t.ms < 0 THEN DateOf(0) ELSE DateOf(t.ms + TickMs)

\* C25: for a fixed history predictValueAt is non-decreasing in the target
\* time, target by target in time order; a prediction at a time before the
\* last entry never exceeds the last entry's views and one after it is never
\* below them.
C25_MonotoneInTime ==
    (pc = "predicted" /\ IsValidDate(target)) =>
        /\ LaterTarget(target) \in Targets
              => RLe(pred, predictValueAt(history, LaterTarget(target)))
        /\ HasLast =>
              /\ target.ms <= EntryTime(Last(history)).ms
                    => RLe(pred, R(Last(history).views))
              /\ target.ms >= EntryTime(Last(history)).ms
                    => RGe(pred, R(Last(history).views))

\* falling views and yet a positive slope: the prediction before the last
\* entry is below its views and a later target gives more
C25_Witness ==
    /\ pc = "predicted" /\ HasLast /\ IsValidDate(target)
    /\ Len(history) = 3
    /\ history[3].views < history[1].views
    /\ target.ms < EntryTime(Last(history)).ms
    /\ RLt(pred, R(Last(history).views))
    /\ \E t2 \in Targets :
          /\ IsValidDate(t2) /\ t2.ms > EntryTime(Last(history)).ms
          /\ RGt(predictValueAt(history, t2), R(Last(history).views))


-----------------------------------------------------------------------------
(* A response without an item for a video *)

\* new is old followed by k predicted entries half an hour apart and by a
\* non-predicted entry at the cycle time, all holding the views v
KeepsViews(old, new, k, v) ==
    /\ Len(new) = Len(old) + k + 1
    /\ SubSeq(new, 1, Len(old)) = old
    /\ \A i \in 1..k :
          new[Len(old) + i] =
              Predicted(parseHistoryEntryDatetime(Last(old)).ms + i * HalfHourMs, v)
    /\ Last(new) = Real(now.ms, v)

\* the number of intermediate entries for the stored history: those of a gap
\* of more than 45 minutes since a last entry that has a time
StepsSince(old) ==
    IF Len(old) > 0 /\ HasTime(Last(old))
          /\ now.ms - parseHistoryEntryDatetime(Last(old)).ms > 45 * MinuteMs
    THEN StepsInside(now.ms - parseHistoryEntryDatetime(Last(old)).ms)
    ELSE 0

\* C26: when a fetch succeeds without an item for a video, the cycle appends a
\* non-predicted entry at the cycle time holding the views of the last stored
\* entry (0 for an empty history), after predicted intermediates of the same
\* views when the gap exceeds 45 minutes.
C26_NoItemKeepsViews ==
    pc = "written" =>
        \A v \in VideoIds :
            fetched[v] = NoItem
                => KeepsViews(existingMap[v], videos[v], StepsSince(existingMap[v]),
                              IF Len(existingMap[v]) = 0 THEN 0
                              ELSE Last(existingMap[v]).views)

\* no item 95 minutes after a video's only entry: three predicted entries and
\* the one at the cycle time, all with the stored views; and an empty history
\* that got an entry of 0 views
C26_Witness ==
    /\ pc = "written"
    /\ now = DateOf(95 * MinuteMs)
    /\ \E v \in VideoIds :
          /\ fetched[v] = NoItem
          /\ existingMap[v] = <<Real(0, 1000)>>
          /\ Len(videos[v]) = 5
          /\ videos[v][3] = Predicted(60 * MinuteMs, 1000)
          /\ videos[v][5] = Real(95 * MinuteMs, 1000)
    /\ \E v \in VideoIds :
          /\ fetched[v] = NoItem
          /\ existingMap[v] = <<>>
          /\ videos[v] = <<Real(95 * MinuteMs, 0)>>


-----------------------------------------------------------------------------
(* scripts/fetch_youtube.js: forecastHistoryAppend *)

\* while (firstIdx < window.length && !parseHistoryEntryDatetime(window[firstIdx]))
\*   firstIdx++   (1-based)
RECURSIVE FirstIdx(_, _)
FirstIdx(window, i) ==
    IF i <= Len(window) /\ IsNull(parseHistoryEntryDatetime(window[i]))
    THEN FirstIdx(window, i + 1)
    ELSE i

\* (b.getTime() - a.getTime()) / 1000
SecondsFrom(a, b) == RDiv(RSub(GetTime(b), GetTime(a)), R(1000))

\* ratePerSec
RatePerSec(vFirst, vLastWin, secondsWindow) ==
    IF RGt(secondsWindow, Zero) THEN RDiv(R(vLastWin - vFirst), secondsWindow) ELSE Zero

\* the rounded extrapolation left as it is unless it is not finite
AtLeastLast_unclamped(predictedViews, vLastWin) ==
    IF ~IsFinite(predictedViews) THEN vLastWin ELSE predictedViews

\* the two replacements by vLastWin
AtLeastLast(predictedViews, vLastWin) ==
    IF ~IsFinite(predictedViews) \/ RLt(predictedViews, Zero) THEN vLastWin
    ELSE IF RLt(predictedViews, vLastWin) THEN vLastWin
    ELSE predictedViews

\* the baseline of 1 view per 15 minutes when there is no growth over more
\* than an hour
Baseline(predictedViews, vLastWin, secondsToNow) ==
    IF predictedViews = vLastWin /\ RGt(secondsToNow, R(60 * 60))
    THEN RAdd(vLastWin, RMax(One, MathRound(RDiv(secondsToNow, R(15 * 60)))))
    ELSE predictedViews

\* predictedViews for the window's first parseable and last entries
PredictedViews(first, lastWin, nowDate) ==
    Baseline(AtLeastLast(MathRound(RAdd(R(ViewsOf(lastWin)),
                 RMul(RatePerSec(ViewsOf(first), ViewsOf(lastWin),
                                 SecondsFrom(parseHistoryEntryDatetime(first),
                                             parseHistoryEntryDatetime(lastWin))),
                      SecondsFrom(parseHistoryEntryDatetime(lastWin), nowDate)))),
                     R(ViewsOf(lastWin))),
             R(ViewsOf(lastWin)),
             SecondsFrom(parseHistoryEntryDatetime(lastWin), nowDate))

\* the entry written at now: over the last entry when that has the same ISO
\* string, pushed otherwise
WithForecast(hist, isoNowStr, predictedViews) ==
    IF isoFromEntry(Last(hist)) = isoNowStr
    THEN [hist EXCEPT ![Len(hist)] = Entry(isoNowStr, Absent, predictedViews, TRUE)]
    ELSE Append(hist, Entry(isoNowStr, Absent, predictedViews, TRUE))

\* the part after the 30-second test, for the window of the last up to 5
ForecastFrom(hist, window, nowDate) ==
    IF FirstIdx(window, 1) > Len(window) THEN hist
    ELSE trimHistory(
             WithForecast(hist, nowISO(nowDate),
                          Stored(PredictedViews(window[FirstIdx(window, 1)],
                                                Last(window), nowDate))),
             MaxHistory)

\* forecastHistoryAppend with the entry pushed however recent the last one is
forecastHistoryAppend_noSkip(prevHistory, nowDate) ==
    IF Len(prevHistory) = 0 THEN prevHistory
    ELSE IF IsNull(parseHistoryEntryDatetime(Last(prevHistory))) THEN prevHistory
    ELSE ForecastFrom(prevHistory, LastN(prevHistory, 5), nowDate)

forecastHistoryAppend(prevHistory, nowDate) ==
    IF Len(prevHistory) = 0 THEN prevHistory
    ELSE IF IsNull(parseHistoryEntryDatetime(Last(prevHistory))) THEN prevHistory
    ELSE IF RLe(RSub(GetTime(nowDate),
                     GetTime(parseHistoryEntryDatetime(Last(prevHistory)))),
                R(30 * 1000))
    THEN prevHistory
    ELSE ForecastFrom(prevHistory, LastN(prevHistory, 5), nowDate)

MaxForecast == 3

QuarterMs == 15 * MinuteMs

\* entries a quarter of an hour apart, level, rising and falling, and entries
\* without a timestamp and with an unparsable one
ForecastEntries ==
    {Real(0, 1000), Real(QuarterMs, 1000), Real(QuarterMs, 1009),
     Real(2 * QuarterMs, 1018), Real(2 * QuarterMs, 990),
     Entry(Absent, Absent, 1000, FALSE), Entry(Garbage, Absent, 1000, FALSE),
     Legacy(0, 1000)}

\* seven entries whose views rise ever faster
RisingHistory == [i \in 1..7 |-> Real(i * QuarterMs, 10 * i * i)]

\* a history at the retention limit
FullHistory == [i \in 1..MaxHistory |-> Real(i * MinuteMs, 1000 + i)]

ForecastHistories ==
    SeqsUpTo(ForecastEntries, MaxForecast) \cup {RisingHistory, FullHistory}

\* ms from the last entry to now: before it, at it, 30 s and just over 30 s
\* after it, a quarter of an hour, an hour, just over an hour and two hours
Delays == {-QuarterMs, 0, 30 * 1000, 30 * 1000 + 1, QuarterMs, 60 * MinuteMs,
           60 * MinuteMs + 1, 120 * MinuteMs}

\* the instant the delay is counted from: the last entry's time when it has one
ForecastBase(h) ==
    IF Len(h) > 0 /\ HasTime(Last(h)) THEN parseHistoryEntryDatetime(Last(h)).ms
    ELSE 2 * QuarterMs

InitForecast ==
    /\ pc = "input"
    /\ history \in ForecastHistories
    /\ \E d \in Delays : now = DateOf(ForecastBase(history) + d)
    /\ pts = Idle /\ again = Idle /\ target = Idle /\ pred = Idle
    /\ days = Idle /\ tz = Idle /\ delta = Idle
    /\ prev = history /\ views = Idle /\ untrimmed = Idle /\ dropped = Idle /\ cycles = Idle
    /\ slope = Idle /\ base = Idle /\ at = Idle
    /\ BatchIdle /\ rate = Idle
    /\ LateIdle

\* forecastHistoryAppend(prevHistory, new Date()); prevHistory is only read
Forecast ==
    /\ pc = "input"
    /\ forecast' = forecastHistoryAppend(history, now)
    /\ pc' = "forecast"
    /\ UNCHANGED <<history, pts, again, target, pred, now, days, tz, delta, prev, views,
                   untrimmed, dropped, cycles, slope, base, at, batchVars, rate,
                   good, floored, refloored, appVars>>

NextForecast == Forecast

SpecForecast == InitForecast /\ [][NextForecast]_vars


-----------------------------------------------------------------------------
(* Claims about forecastHistoryAppend *)

\* ms from the last entry to now, NaN when its timestamp does not parse
SinceLast == RSub(GetTime(now), GetTime(parseHistoryEntryDatetime(Last(history))))

\* the history is empty, or its last entry has no datetime and no date, or is
\* at most 30 seconds older than now
NothingToAdd ==
    \/ Len(history) = 0
    \/ IsNull(parseHistoryEntryDatetime(Last(history)))
    \/ RLe(SinceLast, R(30000))

\* the first entry with a datetime or date among the last 5
WindowFirst == LastN(history, 5)[FirstIdx(LastN(history, 5), 1)]

\* round(last views + rate of the window * seconds since the last entry)
Extrapolation ==
    MathRound(RAdd(R(Last(history).views),
                   RMul(RatePerSec(WindowFirst.views, Last(history).views,
                                   SecondsFrom(parseHistoryEntryDatetime(WindowFirst),
                                               parseHistoryEntryDatetime(Last(history)))),
                        RDiv(SinceLast, R(1000)))))

\* x is not a number above the last views
NoGrowth(x) == IsNaN(x) \/ RLe(x, R(Last(history).views))

\* e is a predicted entry at now with at least the last entry's views, and
\* with the baseline added to them when the extrapolation x shows no growth
\* more than an hour after the last entry
ForecastAtNow(e, x) ==
    /\ e.datetime = nowISO(now) /\ e.predicted
    /\ e.views >= Last(history).views
    /\ (NoGrowth(x) /\ RGt(SinceLast, R(3600000))) =>
          R(e.views) = RAdd(R(Last(history).views),
                            RMax(One, MathRound(RDiv(SinceLast, R(900000)))))

\* the result is the input and one more entry, less the oldest entry when
\* that makes more than the retention limit
OneMore ==
    \E d \in {0, 1} :
        /\ d = 1 <=> Len(history) = MaxHistory
        /\ Len(forecast) = Len(history) + 1 - d
        /\ SubSeq(forecast, 1, Len(forecast) - 1) = SubSeq(history, d + 1, Len(history))

\* the result is the input with another last entry
LastReplaced ==
    /\ Len(forecast) = Len(history)
    /\ SubSeq(forecast, 1, Len(forecast) - 1) = SubSeq(history, 1, Len(history) - 1)

C28_AddsNothing ==
    pc = "forecast" =>
        /\ NothingToAdd => forecast = history
        /\ history = prev
        /\ Len(forecast) <= Len(history) + 1

\* a last entry exactly 30 seconds before now, after an earlier one
C28_Witness ==
    /\ pc = "forecast"
    /\ Len(history) = 2
    /\ HasTime(Last(history))
    /\ SinceLast = R(30000)
    /\ forecast = history


-----------------------------------------------------------------------------
(* floorToHalfHour in a time zone whose offset changes *)

\* a zone whose offset from UTC is before (ms) until the instant change and
\* after from then on
Zone(before, after, change) == [before |-> before, after |-> after, at |-> change]

\* LocalTime(t): the local time value of the instant t
LocalTime(t, zone) == t + (IF t < zone.at THEN zone.before ELSE zone.after)

\* UTC(t): the instant of a local time value; a local time that occurs twice
\* is the earlier instant, one that is skipped is read with the offset before
\* the transition
UTC(local, zone) ==
    IF local - zone.before < zone.at THEN local - zone.before
    ELSE IF local - zone.after >= zone.at THEN local - zone.after
    ELSE local - zone.before

\* d.setSeconds(0, 0)
SetSecondsZero(t, zone) ==
    UTC(LocalTime(t, zone) - (LocalTime(t, zone) % MinuteMs), zone)

\* d.getMinutes()
GetMinutes(t, zone) == (LocalTime(t, zone) \div MinuteMs) % 60

\* d.setMinutes(m)
SetMinutes(t, m, zone) ==
    UTC(LocalTime(t, zone) + (m - GetMinutes(t, zone)) * MinuteMs, zone)

\* lines 183-189 for d after setSeconds(0, 0)
FloorMinutes(d, zone) ==
    IF GetMinutes(d, zone) = 0 \/ GetMinutes(d, zone) = 30 THEN d
    ELSE IF GetMinutes(d, zone) < 30 THEN SetMinutes(d, 0, zone)
    ELSE SetMinutes(d, 30, zone)

\* floorToHalfHour in the zone
floorToHalfHourIn(date, zone) ==
    IF ~IsValidDate(date) THEN InvalidDate
    ELSE DateOf(FloorMinutes(SetSecondsZero(date.ms, zone), zone))

\* dates every 5 minutes up to FloorSpan steps before and after the transition
FloorSpan == 24

\* the instant the zones' offset changes: 06:00 UTC, 20 days after the epoch
TransitionMs == 20 * DayMs + 6 * 60 * MinuteMs

\* on the minute, and 17.003 seconds into it
FloorDates ==
    {DateOf(TransitionMs + k * 5 * MinuteMs + r) :
        k \in (-FloorSpan)..FloorSpan, r \in {0, 17003}}

\* UTC, UTC+05:45, and UTC-04:00 that becomes UTC-05:00 (the clocks go back
\* an hour) and the reverse (the clocks go forward)
FloorZones ==
    {Zone(0, 0, TransitionMs), Zone(345 * MinuteMs, 345 * MinuteMs, TransitionMs),
     Zone(-240 * MinuteMs, -300 * MinuteMs, TransitionMs),
     Zone(-300 * MinuteMs, -240 * MinuteMs, TransitionMs)}

InitFloor ==
    /\ pc = "input"
    /\ now \in FloorDates
    /\ tz \in FloorZones
    /\ history = Idle /\ pts = Idle /\ again = Idle /\ target = Idle /\ pred = Idle
    /\ days = Idle /\ delta = Idle
    /\ prev = Idle /\ views = Idle /\ untrimmed = Idle /\ dropped = Idle /\ cycles = Idle
    /\ slope = Idle /\ base = Idle /\ at = Idle
    /\ BatchIdle /\ rate = Idle
    /\ LateIdle

\* floorToHalfHour(now): the argument is copied by new Date(date)
Floor ==
    /\ pc = "input"
    /\ floored' = floorToHalfHourIn(now, tz)
    /\ pc' = "floored"
    /\ UNCHANGED <<history, pts, again, target, pred, now, days, tz, delta, prev, views,
                   untrimmed, dropped, cycles, slope, base, at, batchVars, rate,
                   good, forecast, refloored, appVars>>

\* floorToHalfHour of the result
FloorAgain ==
    /\ pc = "floored"
    /\ refloored' = floorToHalfHourIn(floored, tz)
    /\ pc' = "refloored"
    /\ UNCHANGED <<history, pts, again, target, pred, now, days, tz, delta, prev, views,
                   untrimmed, dropped, cycles, slope, base, at, batchVars, rate,
                   good, forecast, floored, appVars>>

NextFloor == Floor \/ FloorAgain

SpecFloor == InitFloor /\ [][NextFloor]_vars

\* the zone's offset never changes
FixedZone == tz.before = tz.after

\* in a zone of one offset floorToHalfHourIn is floorToHalfHour with that offset
SameInFixedZone ==
    (pc = "floored" /\ FixedZone) => floored = floorToHalfHour(now, tz.before)

\* the result is on a half hour of local time, not after the date and less
\* than 30 minutes before it, and flooring it again gives it again
OnHalfHour ==
    /\ LocalTime(floored.ms, tz) % HalfHourMs = 0
    /\ floored.ms <= now.ms
    /\ now.ms - floored.ms < HalfHourMs
    /\ pc = "refloored" => refloored = floored

\* C29: floorToHalfHour(d) is an instant whose minute is 0 or 30 with zero
\* seconds and milliseconds, not after d and less than 30 minutes before d,
\* and floorToHalfHour of it is the same instant.
C29_FloorsToHalfHour == pc \in {"floored", "refloored"} => OnHalfHour

\* the same in the zones whose offset does not change
FloorsInFixedZone == (pc \in {"floored", "refloored"} /\ FixedZone) => OnHalfHour


-----------------------------------------------------------------------------
(* App: loading data/videos.json at start and every 20 minutes *)

MaxLoads == 4

\* useState<DataResponse | null>(null)
NoData == "null"

\* what /data/videos.json holds when a fetch reads it
Responses == {"data1", "data2"}

\* the state after the first render
InitApp ==
    /\ pc = "rendered"
    /\ rawData = NoData /\ latest = NoData
    /\ pending = {} /\ loads = 0
    /\ history = Idle /\ pts = Idle /\ again = Idle /\ target = Idle /\ pred = Idle
    /\ now = Idle /\ days = Idle /\ tz = Idle /\ delta = Idle
    /\ prev = Idle /\ views = Idle /\ untrimmed = Idle /\ dropped = Idle /\ cycles = Idle
    /\ slope = Idle /\ base = Idle /\ at = Idle
    /\ BatchIdle /\ rate = Idle
    /\ good = Idle /\ forecast = Idle /\ floored = Idle /\ refloored = Idle

\* rawData after the catch branch with the data dropped
AfterCatch_cleared(data) == NoData

\* rawData after the catch branch: console.error(e) and nothing else
AfterCatch(data) == data

\* load() is called, by the effect or by the interval: the fetch is sent
StartLoad ==
    /\ loads < MaxLoads
    /\ loads' = loads + 1
    /\ pending' = pending \cup {loads + 1}
    /\ pc' = "loading"
    /\ UNCHANGED <<rawData, latest>>
    /\ UNCHANGED <<history, pts, again, target, pred, now, days, tz, delta, prev, views,
                   untrimmed, dropped, cycles, slope, base, at, batchVars, rate,
                   good, forecast, floored, refloored>>

\* fetchVideoData resolves: setRawData(data)
LoadSucceeds ==
    /\ \E id \in pending, data \in Responses :
          /\ pending' = pending \ {id}
          /\ rawData' = data
          /\ latest' = data
    /\ pc' = "loaded"
    /\ UNCHANGED loads
    /\ UNCHANGED <<history, pts, again, target, pred, now, days, tz, delta, prev, views,
                   untrimmed, dropped, cycles, slope, base, at, batchVars, rate,
                   good, forecast, floored, refloored>>

\* fetch rejects, the status is not ok or the body is not JSON: fetchVideoData
\* throws and load catches
LoadFails ==
    /\ \E id \in pending : pending' = pending \ {id}
    /\ rawData' = AfterCatch(rawData)
    /\ pc' = "failed"
    /\ UNCHANGED <<latest, loads>>
    /\ UNCHANGED <<history, pts, again, target, pred, now, days, tz, delta, prev, views,
                   untrimmed, dropped, cycles, slope, base, at, batchVars, rate,
                   good, forecast, floored, refloored>>

NextApp == StartLoad \/ LoadSucceeds \/ LoadFails

SpecApp == InitApp /\ [][NextApp]_vars

\* C30: after any sequence of successful and failed loads rawData is the data
\* of the load that succeeded last, and null when none has succeeded: a failed
\* load leaves the data in place.
C30_KeepsLastLoaded == rawData = latest

\* a load has just failed after another had succeeded, and the data loaded
\* then is still there, with a third load on its way
C30_Witness ==
    /\ pc = "failed"
    /\ loads = 3 /\ Cardinality(pending) = 1
    /\ latest = "data2"
    /\ rawData = "data2"

=============================================================================
